---- MODULE Spec2Model ----
(***************************************************************************)
(* Game-Popularity-Prediction-Model v2: the collection side (platform     *)
(* connectors with their rate governors and retry loops, the per-game     *)
(* orchestrator, the snapshot rows) and the aggregation side              *)
(* (aggregate_features).                                                  *)
(*                                                                         *)
(* Time is an integer count of ticks; one second is TicksPerSecond ticks  *)
(* (the smallest duration in the code is Twitch's request_delay of 0.5 s).*)
(* time.sleep(d) advances the clock by exactly d and a platform request   *)
(* takes no time of its own: every wait the code itself decides is in the *)
(* model; the environment adds time only between two calls.                *)
(*                                                                         *)
(* Python's None is the empty tuple and a present value v is <<v>>, so    *)
(* that "absent" never compares equal to a number, 0 included.            *)
(***************************************************************************)
EXTENDS Integers, Sequences, FiniteSets, TLC

VARIABLES
    now,        \* time.time(), in ticks
    conn,       \* connector-level runs: the connector under exercise
    clients,    \* which API clients / credentials were initialised
    steam,      \* SteamAPIConnector fields
    twitch,     \* TwitchAPIConnector fields
    twitter,    \* ExternalDataCollector.twitter_* fields
    call,       \* the last logical connector call, as observed from outside
    auth_failed,    \* a call of the connector has met an authentication failure
    ncalls,     \* number of logical calls made so far
    \* DataCollector.collect_current_data and collect_external_signals
    pc,                         \* position in the run
    game_ids,                   \* the requested app ids
    timeout_per_game_seconds,   \* the per-game budget, in ticks
    faults,                     \* platform faults the environment may still inject
    idx,                        \* index of the loop the run is in
    player_counts,              \* dict app_id -> player_count, in insertion order
    data_rows,                  \* the rows built so far
    row,                        \* the row being built
    twitch_game_id,
    game_names,                 \* the names handed to collect_external_signals
    game_start_time,
    timed_out_for_game,
    game_signals,
    external_data,
    checks,                     \* the check_timeout calls of the current game
    timed_out_games,            \* names of the games that hit their budget
    \* DataAggregator.aggregate_features
    merged_data,                \* the caller's frame, a sequence of rows
    pre_release_days,
    post_launch_days_peak,
    post_launch_days_avg,
    passed_data,                \* the frame as it was when the caller first passed it
    aggregated,                 \* the frame the last call returned; None before
    previous_output,            \* the frame the call before the last returned
    \* DataAggregator.load_merged_data and DataCollector.merge_historical_data
    data_dir,                   \* self.data_dir, a path
    data_files,                 \* the snapshot files in data_dir, in name order
    merge_result,               \* what the merge call did; fn is "none" before
    \* connector methods called one by one on a connector object
    method_calls                \* the calls made since construction, as observed

connVars == <<now, conn, clients, steam, twitch, twitter, call, auth_failed, ncalls>>
runVars == <<pc, game_ids, timeout_per_game_seconds, faults, idx, player_counts, data_rows,
             row, twitch_game_id,
             game_names, game_start_time, timed_out_for_game, game_signals,
             external_data, checks, timed_out_games>>
aggVars == <<merged_data, pre_release_days, post_launch_days_peak, post_launch_days_avg,
             passed_data, aggregated, previous_output>>
mergeVars == <<data_dir, data_files, merge_result>>
methodVars == <<method_calls>>
vars == <<connVars, runVars, aggVars, mergeVars, methodVars>>

-----------------------------------------------------------------------------
(* Values *)

None == <<>>
Some(v) == <<v>>
Val(o) == o[1]

\* Python dicts: functions from keys to values
EmptyDict == [k \in {} |-> None]
SetItem(d, k, v) == (k :> v) @@ d
DictGet(d, k) == IF k \in DOMAIN d THEN d[k] ELSE None

RECURSIVE SumSeq(_)
SumSeq(s) == IF s = <<>> THEN 0 ELSE Head(s) + SumSeq(Tail(s))

\* s[i] when the platform script has an i-th entry, else the platform answers "ok"
Resp(script, i) == IF i <= Len(script) THEN script[i] ELSE "ok"

-----------------------------------------------------------------------------
(* Time and program constants *)

TicksPerSecond == 2

\* the process starts at some wall-clock time far from the epoch
StartTime == 40

twitter_min_interval_s == 15
twitter_min_interval == twitter_min_interval_s * TicksPerSecond
twitter_rate_limit_cooldown == (15 * 60 + 15) * TicksPerSecond

steam_request_delay == TicksPerSecond           \* 1.0 s
twitch_request_delay == TicksPerSecond \div 2   \* 0.5 s

max_retries == 3
retry_delay_s == 1

gt_retries == 2
gt_delay_s == 15
gt_polite_sleep_s == 5
reddit_polite_sleep_s == 1

\* data.get('expires_in', 3600) and the 60 s safety margin
expires_in_s == 3600
token_margin_s == 60

-----------------------------------------------------------------------------
(* Platform answers.  A script is the sequence of answers the platform gives    *)
(* to the successive requests of one logical call.                              *)
(*   ok         2xx with the expected payload                                   *)
(*   transient  network error, timeout or 5xx                                   *)
(*   throttled  429 / TooManyRequests                                           *)
(*   notfound   404, target does not exist                                      *)
(*   auth       401 / 403                                                       *)

Failures == {"transient", "throttled", "notfound", "auth"}

-----------------------------------------------------------------------------
(* Rate governors of Steam and Twitch *)

\* how long _rate_limit_request sleeps when entered at time t
RateLimitWait_NoSleep(last, delay, t) == 0

RateLimitWait(last, delay, t) ==
    LET time_since_last_request == t - last
    IN  IF time_since_last_request < delay
        THEN delay - time_since_last_request
        ELSE 0

-----------------------------------------------------------------------------
(* SteamAPIConnector._make_request *)

SteamInit == [last_request_time |-> 0, request_count |-> 0, error_count |-> 0,
              app_cache |-> EmptyDict]

\* (the loop with "retry_delay *= 2" left out)
RECURSIVE SteamAttempts_ConstantDelay(_, _, _, _, _)
SteamAttempts_ConstantDelay(attempt, retry_delay, t, script, acc) ==
    LET r    == Resp(script, attempt + 1)
        gets == Append(acc.gets, t)
    IN  IF r = "ok"
        THEN [result |-> "json", t |-> t, errors |-> acc.errors,
              backoffs |-> acc.backoffs, gets |-> gets]
        ELSE IF attempt < max_retries - 1
             THEN SteamAttempts_ConstantDelay(attempt + 1, retry_delay, t + retry_delay,
                                script,
                                [errors |-> acc.errors + 1,
                                 backoffs |-> Append(acc.backoffs, retry_delay),
                                 gets |-> gets])
             ELSE [result |-> "{}", t |-> t, errors |-> acc.errors + 1,
                   backoffs |-> acc.backoffs, gets |-> gets]

RECURSIVE SteamAttempts(_, _, _, _, _)
SteamAttempts(attempt, retry_delay, t, script, acc) ==
    LET r    == Resp(script, attempt + 1)
        gets == Append(acc.gets, t)
    IN  IF r = "ok"
        THEN [result |-> "json", t |-> t, errors |-> acc.errors,
              backoffs |-> acc.backoffs, gets |-> gets]
        ELSE IF attempt < max_retries - 1
             THEN SteamAttempts(attempt + 1, retry_delay * 2, t + retry_delay, script,
                                [errors |-> acc.errors + 1,
                                 backoffs |-> Append(acc.backoffs, retry_delay),
                                 gets |-> gets])
             ELSE [result |-> "{}", t |-> t, errors |-> acc.errors + 1,
                   backoffs |-> acc.backoffs, gets |-> gets]

SteamBackoff_Single(script, t) ==
    [result |-> IF Resp(script, 1) = "ok" THEN "json" ELSE "{}", t |-> t,
     errors |-> IF Resp(script, 1) = "ok" THEN 0 ELSE 1,
     backoffs |-> <<>>, gets |-> <<t>>]

\* the for-loop over range(max_retries), entered at time t
SteamBackoff(script, t) ==
    SteamAttempts(0, retry_delay_s * TicksPerSecond, t, script,
                  [errors |-> 0, backoffs |-> <<>>, gets |-> <<>>])

SteamMakeRequest(st, t, script) ==
    LET w    == RateLimitWait(st.last_request_time, steam_request_delay, t)
        loop == SteamBackoff(script, t + w)
    IN  [result   |-> loop.result,
         t        |-> loop.t,
         st       |-> [st EXCEPT !.last_request_time = t + w,
                                 !.request_count     = @ + 1,
                                 !.error_count       = @ + loop.errors],
         waited   |-> w,
         backoffs |-> loop.backoffs,
         gets     |-> loop.gets,
         posts    |-> 0]

-----------------------------------------------------------------------------
(* TwitchAPIConnector._get_access_token and _make_request *)

TwitchInit == [access_token |-> FALSE, token_expiry_time |-> 0,
               last_request_time |-> 0, request_count |-> 0, error_count |-> 0,
               game_id_cache |-> EmptyDict]

\* post is the answer of the token endpoint, used only if a POST is made
\* (with the expiry time kept as reported, without the 60 s taken off)
GetAccessToken_NoMargin(tw, t, creds, post) ==
    IF tw.access_token /\ t < tw.token_expiry_time
    THEN [tw |-> tw, token |-> TRUE, posted |-> FALSE]
    ELSE IF ~creds
    THEN [tw |-> tw, token |-> FALSE, posted |-> FALSE]
    ELSE IF post = "ok"
    THEN [tw |-> [tw EXCEPT !.access_token = TRUE,
                            !.token_expiry_time = t + expires_in_s * TicksPerSecond],
          token |-> TRUE, posted |-> TRUE]
    ELSE [tw |-> [tw EXCEPT !.access_token = FALSE, !.token_expiry_time = 0],
          token |-> FALSE, posted |-> TRUE]

GetAccessToken(tw, t, creds, post) ==
    IF tw.access_token /\ t < tw.token_expiry_time
    THEN [tw |-> tw, token |-> TRUE, posted |-> FALSE]
    ELSE IF ~creds
    THEN [tw |-> tw, token |-> FALSE, posted |-> FALSE]
    ELSE IF post = "ok"
    THEN [tw |-> [tw EXCEPT !.access_token = TRUE,
                            !.token_expiry_time =
                                t + (expires_in_s - token_margin_s) * TicksPerSecond],
          token |-> TRUE, posted |-> TRUE]
    ELSE [tw |-> [tw EXCEPT !.access_token = FALSE, !.token_expiry_time = 0],
          token |-> FALSE, posted |-> TRUE]

\* gi, pi: how many answers of the GET script and of the POST script are used up
RECURSIVE TwitchAttempts(_, _, _, _, _, _, _, _, _)
TwitchAttempts(attempt, retry_delay, t, tw, creds, gscript, pscript, pi, acc) ==
    LET r     == Resp(gscript, Len(acc.gets) + 1)
        gets1 == Append(acc.gets, t)
        \* 401/403: drop the token, fetch a new one, send the request again
        fresh == GetAccessToken([tw EXCEPT !.access_token = FALSE], t, creds,
                                Resp(pscript, pi + 1))
        pi2   == IF fresh.posted THEN pi + 1 ELSE pi
        r2    == Resp(gscript, Len(acc.gets) + 2)
        \* the answer raise_for_status() looks at, the GETs sent and the state
        final == IF r = "auth" /\ fresh.token THEN r2 ELSE r
        gets2 == IF r = "auth" /\ fresh.token THEN Append(gets1, t) ELSE gets1
        tw2   == IF r = "auth" THEN fresh.tw ELSE tw
        pi3   == IF r = "auth" THEN pi2 ELSE pi
    IN  IF r = "auth" /\ ~fresh.token
        THEN [result |-> None, t |-> t, tw |-> tw2, errors |-> acc.errors,
              backoffs |-> acc.backoffs, gets |-> gets1, posts |-> pi3]
        ELSE IF final = "ok"
        THEN [result |-> Some("json"), t |-> t, tw |-> tw2, errors |-> acc.errors,
              backoffs |-> acc.backoffs, gets |-> gets2, posts |-> pi3]
        ELSE IF attempt < max_retries - 1
        THEN TwitchAttempts(attempt + 1, retry_delay * 2, t + retry_delay, tw2, creds,
                            gscript, pscript, pi3,
                            [errors |-> acc.errors + 1,
                             backoffs |-> Append(acc.backoffs, retry_delay),
                             gets |-> gets2])
        ELSE [result |-> None, t |-> t, tw |-> tw2, errors |-> acc.errors + 1,
              backoffs |-> acc.backoffs, gets |-> gets2, posts |-> pi3]

TwitchMakeRequest(tw, t, creds, gscript, pscript) ==
    LET tok  == GetAccessToken(tw, t, creds, Resp(pscript, 1))
        pi   == IF tok.posted THEN 1 ELSE 0
        w    == RateLimitWait(tok.tw.last_request_time, twitch_request_delay, t)
        tw1  == [tok.tw EXCEPT !.last_request_time = t + w,
                                !.request_count = @ + 1]
        loop == TwitchAttempts(0, retry_delay_s * TicksPerSecond, t + w, tw1, creds,
                               gscript, pscript, pi,
                               [errors |-> 0, backoffs |-> <<>>, gets |-> <<>>])
    IN  IF ~tok.token
        THEN [result |-> None, t |-> t, st |-> tok.tw, waited |-> 0,
              backoffs |-> <<>>, gets |-> <<>>, posts |-> pi]
        ELSE [result   |-> loop.result,
              t        |-> loop.t,
              st       |-> [loop.tw EXCEPT !.error_count = @ + loop.errors],
              waited   |-> w,
              backoffs |-> loop.backoffs,
              gets     |-> loop.gets,
              posts    |-> loop.posts]

-----------------------------------------------------------------------------
(* ExternalDataCollector.get_twitter_data: the Twitter governor and one request *)

TwitterInit == [last_api_call_time |-> 0, is_in_cooldown |-> FALSE, cooldown_until |-> 0]

\* the cooldown check: how long the call sleeps until twitter_cooldown_until
CooldownWait_None(st, current_time) == 0

CooldownWait(st, current_time) ==
    IF st.is_in_cooldown /\ current_time < st.cooldown_until
    THEN st.cooldown_until - current_time
    ELSE 0

\* the proactive delay: time_since_last_call is measured from current_time, the
\* time read on entry, also when the cooldown sleep came in between
ProactiveWait(st, current_time) ==
    LET time_since_last_call == current_time - st.last_api_call_time
    IN  IF time_since_last_call < twitter_min_interval
        THEN twitter_min_interval - time_since_last_call
        ELSE 0

\* the fields after the request was answered with resp at time t
\* (with the cooldown entered in every except branch)
AfterTwitterRequest_CooldownOnAnyError(st, resp, t) ==
    IF resp \in {"ok", "errors", "nometa"}
    THEN [st EXCEPT !.is_in_cooldown = FALSE]
    ELSE [st EXCEPT !.is_in_cooldown = TRUE,
                    !.cooldown_until = t + twitter_rate_limit_cooldown]

AfterTwitterRequest(st, resp, t) ==
    IF resp \in {"ok", "errors", "nometa"}
    THEN [st EXCEPT !.is_in_cooldown = FALSE]
    ELSE IF resp = "throttled"
    THEN [st EXCEPT !.is_in_cooldown = TRUE,
                    !.cooldown_until = t + twitter_rate_limit_cooldown]
    ELSE st

\* the dict get_twitter_data returns
TwitterResult(resp) ==
    [recent_tweet_count |->
        IF resp = "ok" THEN Some(9) ELSE IF resp = "nometa" THEN Some(0) ELSE None]

TwitterResponses == {"ok", "errors", "nometa"} \cup Failures

GetTwitterData(st, t, client, script) ==
    LET current_time == t
        cw   == CooldownWait(st, current_time)
        st1  == IF st.is_in_cooldown THEN [st EXCEPT !.is_in_cooldown = FALSE] ELSE st
        pw   == ProactiveWait(st1, current_time)
        t2   == t + cw + pw
        st2  == [st1 EXCEPT !.last_api_call_time = t2]
        resp == Resp(script, 1)
    IN  IF ~client
        THEN [result |-> [recent_tweet_count |-> None], t |-> t, st |-> st,
              waited |-> 0, backoffs |-> <<>>, gets |-> <<>>, posts |-> 0]
        ELSE [result   |-> TwitterResult(resp),
              t        |-> t2,
              st       |-> AfterTwitterRequest(st2, resp, t2),
              waited   |-> cw + pw,
              backoffs |-> <<>>,
              gets     |-> <<t2>>,
              posts    |-> 0]

-----------------------------------------------------------------------------
(* ExternalDataCollector.get_google_trends_interest *)

\* answers of Google Trends: ok (a frame with the keyword column), empty (an empty
\* frame), nokey (a frame without the keyword column), throttled (response code
\* 429), any other failure
\* (every exception taken for a rate-limit error)
IsRateLimit_AnyError(r) == TRUE

IsRateLimit(r) == r = "throttled"

\* the while loop; fallback tells that the loop was left by its condition and the
\* return after the loop was reached
RECURSIVE GTrendsAttempts(_, _, _, _, _, _)
GTrendsAttempts(attempt, retries, current_delay, t, script, acc) ==
    LET r    == Resp(script, Len(acc.gets) + 1)
        gets == Append(acc.gets, t)
        polite == gt_polite_sleep_s * TicksPerSecond
    IN  IF attempt > retries
        THEN [result |-> None, t |-> t, backoffs |-> acc.backoffs, gets |-> acc.gets,
              fallback |-> TRUE]
        ELSE IF r \in {"ok", "empty", "nokey"}
        THEN [result |-> Some(r), t |-> t + polite,
              backoffs |-> acc.backoffs, gets |-> gets, fallback |-> FALSE]
        ELSE IF IsRateLimit(r) /\ attempt < retries
        THEN GTrendsAttempts(attempt + 1, retries, current_delay * 2, t + current_delay,
                             script,
                             [backoffs |-> Append(acc.backoffs, current_delay),
                              gets |-> gets])
        ELSE [result |-> None, t |-> t, backoffs |-> acc.backoffs, gets |-> gets,
              fallback |-> FALSE]

\* get_google_trends_interest(keyword, retries=retries, delay=delay)
GetGoogleTrendsInterest(t, client, script, retries, delay) ==
    LET loop == GTrendsAttempts(0, retries, delay, t, script,
                                [backoffs |-> <<>>, gets |-> <<>>])
    IN  IF ~client
        THEN [result |-> None, t |-> t, waited |-> 0,
              backoffs |-> <<>>, gets |-> <<>>, posts |-> 0, fallback |-> FALSE]
        ELSE [result |-> loop.result, t |-> loop.t, waited |-> 0,
              backoffs |-> loop.backoffs, gets |-> loop.gets, posts |-> 0,
              fallback |-> loop.fallback]

\* the call with retries and delay left at their defaults
GetGoogleTrends(t, client, script) ==
    GetGoogleTrendsInterest(t, client, script, gt_retries, gt_delay_s * TicksPerSecond)

-----------------------------------------------------------------------------
(* ExternalDataCollector.get_reddit_data *)

\* answers of Reddit: ok, search_failed (the subreddit is read, the post search
\* fails), any failure while reading the subreddit
RedditResponses == {"ok", "search_failed"} \cup Failures

RedditErrorResult == [subscribers |-> None, active_users |-> None, recent_post_count |-> None]

GetRedditData(t, client, script) ==
    LET r == Resp(script, 1)
    IN  IF ~client
        THEN [result |-> RedditErrorResult, t |-> t, waited |-> 0,
              backoffs |-> <<>>, gets |-> <<>>, posts |-> 0]
        ELSE IF r \in {"ok", "search_failed"}
        THEN [result |-> [subscribers |-> Some(100), active_users |-> Some(10),
                          recent_post_count |-> IF r = "ok" THEN Some(4) ELSE None],
              t |-> t + reddit_polite_sleep_s * TicksPerSecond, waited |-> 0,
              backoffs |-> <<>>, gets |-> <<t>>, posts |-> 0]
        ELSE [result |-> RedditErrorResult, t |-> t, waited |-> 0,
              backoffs |-> <<>>, gets |-> <<t>>, posts |-> 0]

-----------------------------------------------------------------------------
(* ExternalDataCollector.get_youtube_data *)

\* answers of YouTube: ok (videos with statistics), novideos (the search finds
\* nothing), any failure of the search or of the statistics request
YouTubeResponses == {"ok", "novideos"} \cup Failures

\* the returned dict, as the set of its keys and one value for each
YouTubeDict(suffix, total, avg_views, avg_likes) ==
    [k \in {"total_views_top" \o suffix, "avg_views_top" \o suffix,
            "avg_likes_top" \o suffix} |->
        IF k = "total_views_top" \o suffix THEN total
        ELSE IF k = "avg_views_top" \o suffix THEN avg_views ELSE avg_likes]

GetYouTubeData(t, api_key, script) ==
    LET r == Resp(script, 1)
        res == IF ~api_key THEN YouTubeDict("_N", None, None, None)
               ELSE IF r = "ok" THEN YouTubeDict("_2", Some(60), Some(30), Some(5))
               ELSE IF r = "novideos" THEN YouTubeDict("", Some(0), Some(0), Some(0))
               ELSE YouTubeDict("_N", None, None, None)
    IN  [result |-> res, t |-> t, waited |-> 0, backoffs |-> <<>>,
         gets |-> IF api_key THEN <<t>> ELSE <<>>, posts |-> 0]

-----------------------------------------------------------------------------
(* Connector-level runs: one connector object, called MaxCalls times at        *)
(* arbitrary arrival times, the platform answering by arbitrary scripts.       *)

MaxCalls == 2

Connectors == {"steam", "twitch", "twitter", "gtrends", "reddit", "youtube"}

AllClients == [c \in Connectors |-> TRUE]

Rep(x, k) == [i \in 1 .. k |-> x]

\* the platform fails the same way k times in a row, then answers (see Resp);
\* no call reads more than max_retries answers in a row without a good one
FailureScripts == {Rep(f, k) : f \in Failures, k \in 0 .. max_retries}
TokenScripts == {<<>>, <<"fail">>}

\* how long a token is used after the request for it: the reported lifetime less
\* the safety margin
token_lifetime == (expires_in_s - token_margin_s) * TicksPerSecond

\* time between the end of one call and the arrival of the next
Gaps(c) ==
    CASE c = "twitter" -> {0, 1, twitter_min_interval, twitter_rate_limit_cooldown - 1,
                           twitter_rate_limit_cooldown}
      [] c = "steam"   -> 0 .. steam_request_delay
      [] c = "twitch"  -> (0 .. twitch_request_delay)
                              \cup {token_lifetime - 1, token_lifetime}
      [] OTHER         -> {0}

NoCall == [conn |-> "none", script |-> <<>>, pscript |-> <<>>, arrival |-> 0,
           result |-> None, t |-> 0, waited |-> 0, backoffs |-> <<>>,
           gets |-> <<>>, posts |-> 0, assigned |-> FALSE, prev_last |-> 0,
           new_last |-> 0, until_before |-> 0]

\* the call was answered 401/403, or its token request was refused
MetAuthFailure(script, pscript, r) ==
    \/ r.gets # <<>> /\ script # <<>> /\ script[1] = "auth"
    \/ r.posts > 0 /\ pscript # <<>>

Observed(c, script, pscript, arrival, r, assigned, prev_last, new_last, until) ==
    [conn |-> c, script |-> script, pscript |-> pscript, arrival |-> arrival,
     result |-> r.result, t |-> r.t, waited |-> r.waited, backoffs |-> r.backoffs,
     gets |-> r.gets, posts |-> r.posts, assigned |-> assigned,
     prev_last |-> prev_last, new_last |-> new_last, until_before |-> until]

\* the run variables of a process that is not collecting
RunIdle ==
    /\ pc = "idle"
    /\ game_ids = <<>>
    /\ timeout_per_game_seconds = 0
    /\ faults = 0
    /\ idx = 0
    /\ player_counts = <<>>
    /\ data_rows = <<>>
    /\ row = EmptyDict
    /\ twitch_game_id = None
    /\ game_names = <<>>
    /\ game_start_time = 0
    /\ timed_out_for_game = FALSE
    /\ game_signals = EmptyDict
    /\ external_data = EmptyDict
    /\ checks = <<>>
    /\ timed_out_games = {}

\* the aggregation variables of a process that is not aggregating
AggIdle ==
    /\ merged_data = <<>>
    /\ pre_release_days = 0
    /\ post_launch_days_peak = 0
    /\ post_launch_days_avg = 0
    /\ passed_data = <<>>
    /\ aggregated = None
    /\ previous_output = None

\* the merge variables of a process that merges nothing
NoMerge == [fn |-> "none", raised |-> FALSE, frame |-> <<>>]

MergeIdle ==
    /\ data_dir = <<>>
    /\ data_files = <<>>
    /\ merge_result = NoMerge

\* the history of a process that calls no connector method by itself
MethodIdle == method_calls = <<>>

ConnInit ==
    /\ now = StartTime
    /\ conn \in Connectors
    /\ clients \in {AllClients, [AllClients EXCEPT ![conn] = FALSE]}
    /\ steam = SteamInit
    /\ twitch = TwitchInit
    /\ twitter = TwitterInit
    /\ call = NoCall
    /\ auth_failed = FALSE
    /\ ncalls = 0
    /\ RunIdle
    /\ AggIdle
    /\ MergeIdle
    /\ MethodIdle

SteamCall ==
    /\ conn = "steam" /\ ncalls < MaxCalls
    /\ \E gap \in Gaps("steam"), script \in FailureScripts :
          LET r == SteamMakeRequest(steam, now + gap, script)
          IN  /\ steam' = r.st
              /\ now' = r.t
              /\ call' = Observed("steam", script, <<>>, now + gap, r, TRUE,
                                  steam.last_request_time, r.st.last_request_time, 0)
              /\ auth_failed' = (auth_failed \/ MetAuthFailure(script, <<>>, r))
    /\ ncalls' = ncalls + 1
    /\ UNCHANGED <<conn, clients, twitch, twitter>>
    /\ UNCHANGED runVars
    /\ UNCHANGED aggVars
    /\ UNCHANGED mergeVars
    /\ UNCHANGED methodVars

TwitchCall ==
    /\ conn = "twitch" /\ ncalls < MaxCalls
    /\ \E gap \in Gaps("twitch"), script \in FailureScripts, pscript \in TokenScripts :
          LET r == TwitchMakeRequest(twitch, now + gap, clients["twitch"], script, pscript)
          IN  /\ twitch' = r.st
              /\ now' = r.t
              /\ call' = Observed("twitch", script, pscript, now + gap, r,
                                  r.st.request_count > twitch.request_count,
                                  twitch.last_request_time, r.st.last_request_time, 0)
              /\ auth_failed' = (auth_failed \/ MetAuthFailure(script, pscript, r))
    /\ ncalls' = ncalls + 1
    /\ UNCHANGED <<conn, clients, steam, twitter>>
    /\ UNCHANGED runVars
    /\ UNCHANGED aggVars
    /\ UNCHANGED mergeVars
    /\ UNCHANGED methodVars

TwitterCall ==
    /\ conn = "twitter" /\ ncalls < MaxCalls
    /\ \E gap \in Gaps("twitter"), resp \in TwitterResponses :
          LET r == GetTwitterData(twitter, now + gap, clients["twitter"], <<resp>>)
          IN  /\ twitter' = r.st
              /\ now' = r.t
              /\ call' = Observed("twitter", <<resp>>, <<>>, now + gap, r,
                                  clients["twitter"],
                                  twitter.last_api_call_time, r.st.last_api_call_time,
                                  twitter.cooldown_until)
              /\ auth_failed' = (auth_failed \/ MetAuthFailure(<<resp>>, <<>>, r))
    /\ ncalls' = ncalls + 1
    /\ UNCHANGED <<conn, clients, steam, twitch>>
    /\ UNCHANGED runVars
    /\ UNCHANGED aggVars
    /\ UNCHANGED mergeVars
    /\ UNCHANGED methodVars

GTrendsCall ==
    /\ conn = "gtrends" /\ ncalls < MaxCalls
    /\ \E gap \in Gaps("gtrends"), script \in FailureScripts,
          last \in {"ok", "empty", "nokey"} :
          LET full == script \o <<last>>
              r == GetGoogleTrends(now + gap, clients["gtrends"], full)
          IN  /\ now' = r.t
              /\ call' = Observed("gtrends", full, <<>>, now + gap, r, FALSE, 0, 0, 0)
              /\ auth_failed' = (auth_failed \/ MetAuthFailure(full, <<>>, r))
    /\ ncalls' = ncalls + 1
    /\ UNCHANGED <<conn, clients, steam, twitch, twitter>>
    /\ UNCHANGED runVars
    /\ UNCHANGED aggVars
    /\ UNCHANGED mergeVars
    /\ UNCHANGED methodVars

RedditCall ==
    /\ conn = "reddit" /\ ncalls < MaxCalls
    /\ \E gap \in Gaps("reddit"), resp \in RedditResponses :
          LET r == GetRedditData(now + gap, clients["reddit"], <<resp>>)
          IN  /\ now' = r.t
              /\ call' = Observed("reddit", <<resp>>, <<>>, now + gap, r, FALSE, 0, 0, 0)
              /\ auth_failed' = (auth_failed \/ MetAuthFailure(<<resp>>, <<>>, r))
    /\ ncalls' = ncalls + 1
    /\ UNCHANGED <<conn, clients, steam, twitch, twitter>>
    /\ UNCHANGED runVars
    /\ UNCHANGED aggVars
    /\ UNCHANGED mergeVars
    /\ UNCHANGED methodVars

YouTubeCall ==
    /\ conn = "youtube" /\ ncalls < MaxCalls
    /\ \E gap \in Gaps("youtube"), resp \in YouTubeResponses :
          LET r == GetYouTubeData(now + gap, clients["youtube"], <<resp>>)
          IN  /\ now' = r.t
              /\ call' = Observed("youtube", <<resp>>, <<>>, now + gap, r, FALSE, 0, 0, 0)
              /\ auth_failed' = (auth_failed \/ MetAuthFailure(<<resp>>, <<>>, r))
    /\ ncalls' = ncalls + 1
    /\ UNCHANGED <<conn, clients, steam, twitch, twitter>>
    /\ UNCHANGED runVars
    /\ UNCHANGED aggVars
    /\ UNCHANGED mergeVars
    /\ UNCHANGED methodVars

ConnNext ==
    \/ SteamCall
    \/ TwitchCall
    \/ TwitterCall
    \/ GTrendsCall
    \/ RedditCall
    \/ YouTubeCall

SpecConn == ConnInit /\ [][ConnNext]_vars

-----------------------------------------------------------------------------
(* Claims about the connectors (checked under SpecConn) *)

MinInterval(c) ==
    CASE c = "twitter" -> twitter_min_interval
      [] c = "steam"   -> steam_request_delay
      [] c = "twitch"  -> twitch_request_delay
      [] OTHER         -> 0

\* the platform failed k times with failure f and then gave a good answer
FailsThenSucceeds(f, k) ==
    IF call.conn = "gtrends"
    THEN \E good \in {"ok", "empty", "nokey"} : call.script = Rep(f, k) \o <<good>>
    ELSE call.script = Rep(f, k)

\* the client is initialised and, for Twitch, the token endpoint answers
Usable == call.conn \in Connectors /\ clients[call.conn] /\ call.pscript = <<>>

Succeeded ==
    CASE call.conn = "steam"   -> call.result = "json"
      [] call.conn = "twitch"  -> call.result = Some("json")
      [] call.conn = "gtrends" -> call.result # None
      [] call.conn = "twitter" -> call.result.recent_tweet_count # None
      [] call.conn = "reddit"  -> call.result.subscribers # None
      [] call.conn = "youtube" -> \A key \in DOMAIN call.result : call.result[key] # None
      [] OTHER -> FALSE

\* C3: two successive values of a governor's last-call time are at least the
\* governor's minimum interval apart, and a fresh governor (last-call time still 0)
\* lets its first call through without waiting.
C3_MinIntervalBetweenCalls ==
    call.assigned =>
        /\ call.new_last - call.prev_last >= MinInterval(call.conn)
        /\ (call.prev_last = 0 => call.waited = 0)

C3_Witness ==
    /\ call.conn = "twitter" /\ call.assigned
    /\ call.prev_last > 0 /\ call.waited > 0
    /\ call.new_last - call.prev_last = twitter_min_interval

\* C4: no request is sent to Twitter before the twitter_cooldown_until that the last
\* TooManyRequests failure set (0 when there was none).
C4_NoRequestBeforeCooldownUntil ==
    call.conn = "twitter" =>
        \A i \in 1 .. Len(call.gets) : call.gets[i] >= call.until_before

C4_Witness ==
    /\ call.conn = "twitter"
    /\ call.arrival < call.until_before
    /\ call.gets # <<>>

\* C14 as stated: a logical call whose request is answered NotFound (404) or
\* AuthFailure (401/403) sends exactly one request, in every connector.
C14_NotFoundAuthNotRetried ==
    \A f \in {"notfound", "auth"} :
        (Usable /\ call.script # <<>> /\ call.script[1] = f) => Len(call.gets) = 1

\* the call returned its failure value without a request to the platform
FailedWithoutRequest ==
    /\ call.gets = <<>> /\ call.posts = 0
    /\ ~Succeeded

\* C15 as stated: once a call of the Twitch or Twitter connector has met an
\* authentication failure, every later call of that connector returns the failure
\* without a request to the platform.
C15_UnusableAfterAuthFailure ==
    [][(auth_failed /\ conn \in {"twitch", "twitter"}) => FailedWithoutRequest']_vars

\* the attempts each connector's code allows for one logical call
MaxAttempts(c) ==
    CASE c \in {"steam", "twitch"} -> max_retries
      [] c = "gtrends" -> gt_retries + 1
      [] OTHER -> 1

C6_RetriesExhausted ==
    call.conn \in {"steam", "twitch"} /\ call.assigned
        /\ call.script = Rep("transient", max_retries)
    =>  /\ call.result = (IF call.conn = "steam" THEN "{}" ELSE None)
        /\ Len(call.gets) = 3
        /\ call.backoffs = <<1 * TicksPerSecond, 2 * TicksPerSecond>>
        /\ call.gets[2] - call.gets[1] = 1 * TicksPerSecond
        /\ call.gets[3] - call.gets[2] = 2 * TicksPerSecond
        /\ call.t = call.gets[3]

C6_Witness ==
    /\ call.conn = "twitch" /\ call.assigned
    /\ call.script = Rep("transient", max_retries)
    /\ call.result = None /\ Len(call.backoffs) = 2

\* C21: a call of get_twitter_data leaves twitter_is_in_cooldown true, or changes
\* twitter_cooldown_until, only when its request was answered TooManyRequests;
\* after every other call (success, errors in the response, another Tweepy error,
\* a timeout, no client) the governor is out of cooldown and twitter_cooldown_until
\* is what it was.
C21_CooldownOnlyWhenThrottled ==
    [][conn = "twitter" =>
          /\ (twitter'.is_in_cooldown \/ twitter'.cooldown_until # twitter.cooldown_until)
                => /\ clients["twitter"]
                   /\ call'.script = <<"throttled">>
                   /\ twitter'.cooldown_until = call'.t + twitter_rate_limit_cooldown
          /\ (clients["twitter"] /\ call'.script = <<"throttled">>)
                => twitter'.is_in_cooldown]_vars

\* a throttled call has put the governor into cooldown
C21_Witness ==
    /\ conn = "twitter" /\ call.script = <<"throttled">>
    /\ twitter.is_in_cooldown
    /\ twitter.cooldown_until = call.t + twitter_rate_limit_cooldown

\* C22 as stated: the min-interval wait of a call is measured from the time the
\* cooldown wait has ended: with elapsed = (arrival + cooldown wait) - last call
\* time, the call waits min_interval - elapsed after the cooldown when
\* elapsed < min_interval, and not at all otherwise.
C22_MinIntervalAfterCooldown ==
    [][(conn = "twitter" /\ clients["twitter"]) =>
          LET cw      == CooldownWait(twitter, call'.arrival)
              elapsed == call'.arrival + cw - twitter.last_api_call_time
          IN  call'.waited - cw =
                  IF elapsed < twitter_min_interval
                  THEN twitter_min_interval - elapsed
                  ELSE 0]_vars


\* the GETs of one logical call are at least delay apart
Spaced(gets, delay) ==
    \A i \in 1 .. (Len(gets) - 1) : gets[i + 1] - gets[i] >= delay

\* the GETs of the call just made are spaced, and its first GET is at least delay
\* after the last GET of the call before
SpacedStep(delay) ==
    /\ Spaced(call'.gets, delay)
    /\ (call.gets # <<>> /\ call'.gets # <<>>)
          => (call'.gets[1] - call.gets[Len(call.gets)] >= delay)

\* C23 as stated: every two consecutive GETs a Steam or Twitch connector sends
\* (first attempts, retries, the Twitch re-request after a 401/403; within one
\* _make_request call and from one call to the next) are at least request_delay
\* apart.
C23_RequestsSpaced ==
    [][(conn \in {"steam", "twitch"}) => SpacedStep(MinInterval(conn))]_vars

\* a GET of the call was answered 401/403
AnsweredAuth(c) == c.gets # <<>> /\ c.script # <<>> /\ c.script[1] = "auth"

\* the call made one token request, on entry, and it was granted
FetchedOnEntry(c) ==
    /\ c.conn = "twitch" /\ c.posts = 1 /\ c.pscript = <<>> /\ ~AnsweredAuth(c)

\* one _make_request call of a Twitch connector with credentials
TokenStep ==
    LET cached == twitch.access_token /\ call'.arrival < twitch.token_expiry_time
    IN  /\ (cached /\ ~AnsweredAuth(call')) => call'.posts = 0
        /\ ~cached => call'.posts >= 1
        /\ AnsweredAuth(call') => call'.posts >= 1
        /\ FetchedOnEntry(call) =>
              /\ twitch.access_token
              /\ twitch.token_expiry_time = call.arrival + token_lifetime
              /\ ~AnsweredAuth(call') =>
                    (call'.posts = 0 <=> call'.arrival < call.arrival + token_lifetime)
        /\ (call.conn = "twitch" /\ call.posts > 0 /\ call.pscript # <<>>) =>
              /\ ~twitch.access_token
              /\ call'.posts >= 1

\* C30: a call uses the cached token without a token request only while the time
\* is before (time of the token request + expires_in - 60 s); at or after that
\* time, after a refused token request and after a 401/403 answer the next
\* _get_access_token call requests a new token.
C30_TokenCachedWithMargin ==
    [][(conn = "twitch" /\ clients["twitch"]) => TokenStep]_vars

\* a call arriving one tick before the token's expiry time was served with the
\* cached token
C30_Witness ==
    /\ call.conn = "twitch" /\ clients["twitch"]
    /\ call.posts = 0 /\ call.gets # <<>>
    /\ call.arrival = twitch.token_expiry_time - 1

-----------------------------------------------------------------------------
(* SteamAPIConnector.get_current_player_count and get_app_details,             *)
(* TwitchAPIConnector.get_game_id_by_name and get_game_viewership              *)

AppIds == {1, 2}

\* what the platforms know about an app
NameOf(app_id) == IF app_id = 1 THEN "g1" ELSE "g2"
CategoryOf(app_id) == IF app_id = 1 THEN "fps" ELSE "uncategorized"

GetCurrentPlayerCount(st, t, script) ==
    LET r == SteamMakeRequest(st, t, script)
    IN  [count |-> IF r.result = "json" THEN Some(7) ELSE Some(0), t |-> r.t, st |-> r.st]

\* (with the empty result of a failed lookup put into the cache as well)
GetAppDetails_CachesFailures(st, t, app_id, script, payload) ==
    LET r == SteamMakeRequest(st, t, script)
        app_details == [data |-> IF payload = "data" THEN Some(NameOf(app_id)) ELSE None]
    IN  IF app_id \in DOMAIN st.app_cache
        THEN [details |-> Some(st.app_cache[app_id]), t |-> t, st |-> st,
              gets |-> <<>>]
        ELSE [details |-> IF r.result = "json" /\ payload # "missing"
                          THEN Some(app_details) ELSE None,
              t |-> r.t,
              st |-> [r.st EXCEPT !.app_cache = SetItem(@, app_id, app_details)],
              gets |-> r.gets]

\* payload: "data" (the entry of the app carries 'data'), "nodata" (an entry
\* without 'data'), "missing" (no entry for the app).  {} is None here.
GetAppDetails(st, t, app_id, script, payload) ==
    LET r == SteamMakeRequest(st, t, script)
        app_details == [data |-> IF payload = "data" THEN Some(NameOf(app_id)) ELSE None]
    IN  IF app_id \in DOMAIN st.app_cache
        THEN [details |-> Some(st.app_cache[app_id]), t |-> t, st |-> st,
              gets |-> <<>>]
        ELSE IF r.result = "json" /\ payload # "missing"
        THEN [details |-> Some(app_details), t |-> r.t,
              st |-> [r.st EXCEPT !.app_cache = SetItem(@, app_id, app_details)],
              gets |-> r.gets]
        ELSE [details |-> None, t |-> r.t, st |-> r.st, gets |-> r.gets]

\* (with only the ids that were found put into the cache)
GetGameIdByName_NoneNotCached(tw, t, creds, game_name, gscript, pscript, found) ==
    LET r       == TwitchMakeRequest(tw, t, creds, gscript, pscript)
        game_id == IF r.result # None /\ found THEN Some("id_" \o game_name) ELSE None
    IN  IF game_name \in DOMAIN tw.game_id_cache
        THEN [game_id |-> tw.game_id_cache[game_name], t |-> t, st |-> tw,
              gets |-> <<>>, posts |-> 0]
        ELSE [game_id |-> game_id, t |-> r.t,
              st |-> IF game_id = None THEN r.st
                     ELSE [r.st EXCEPT !.game_id_cache = SetItem(@, game_name, game_id)],
              gets |-> r.gets, posts |-> r.posts]

GetGameIdByName(tw, t, creds, game_name, gscript, pscript, found) ==
    LET r       == TwitchMakeRequest(tw, t, creds, gscript, pscript)
        game_id == IF r.result # None /\ found THEN Some("id_" \o game_name) ELSE None
    IN  IF game_name \in DOMAIN tw.game_id_cache
        THEN [game_id |-> tw.game_id_cache[game_name], t |-> t, st |-> tw,
              gets |-> <<>>, posts |-> 0]
        ELSE [game_id |-> game_id, t |-> r.t,
              st |-> [r.st EXCEPT !.game_id_cache = SetItem(@, game_name, game_id)],
              gets |-> r.gets, posts |-> r.posts]

\* data: the 'data' entry of the answer, the viewer counts of the live streams;
\* None when the answer has no 'data' entry
GetGameStreams(tw, t, creds, gscript, pscript, data) ==
    LET r == TwitchMakeRequest(tw, t, creds, gscript, pscript)
    IN  [streams |-> IF r.result # None /\ data # None THEN data ELSE None,
         t |-> r.t, st |-> r.st, gets |-> r.gets]

\* (with 0 returned when the streams could not be fetched)
GetGameViewership_ZeroOnFailure(tw, t, creds, gscript, pscript, data) ==
    LET s == GetGameStreams(tw, t, creds, gscript, pscript, data)
    IN  [viewers |-> IF s.streams # None THEN Some(SumSeq(Val(s.streams))) ELSE Some(0),
         t |-> s.t, st |-> s.st, gets |-> s.gets]

GetGameViewership(tw, t, creds, gscript, pscript, data) ==
    LET s == GetGameStreams(tw, t, creds, gscript, pscript, data)
    IN  [viewers |-> IF s.streams # None THEN Some(SumSeq(Val(s.streams))) ELSE None,
         t |-> s.t, st |-> s.st, gets |-> s.gets]

-----------------------------------------------------------------------------
(* DataCollector.collect_current_data with ExternalDataCollector.              *)
(* collect_external_signals, for include_details, include_twitch and           *)
(* include_external left at their defaults (True)                              *)

MaxGames == 2       \* longest list of requested game ids
MaxFaults == 2      \* platform faults in one run

default_timeout_s == 30

SignalKeys == {"google_trends_avg", "reddit_data", "twitter_data", "youtube_data"}

MetricKeys == {"player_count", "twitch_viewer_count", "google_trends_avg",
               "reddit_subscribers", "reddit_active_users", "reddit_recent_posts",
               "twitter_recent_count", "youtube_total_views", "youtube_avg_views",
               "youtube_avg_likes"}

\* results = {} ... results[app_id] = player_count, as the list of its items
DictPut_Append(d, k, v) == Append(d, [app_id |-> k, player_count |-> v])

DictPut(d, k, v) ==
    IF \E j \in DOMAIN d : d[j].app_id = k
    THEN [j \in DOMAIN d |->
            IF d[j].app_id = k THEN [app_id |-> k, player_count |-> v] ELSE d[j]]
    ELSE Append(d, [app_id |-> k, player_count |-> v])

\* row = {...}
InitialRow(app_id, player_count, timestamp) ==
    [k \in {"app_id", "timestamp", "name"} \cup MetricKeys |->
        CASE k = "app_id"       -> app_id
          [] k = "player_count" -> player_count
          [] k = "timestamp"    -> timestamp
          [] k = "name"         -> ""
          [] OTHER              -> None]

\* check_timeout: TRUE when the connector is to be skipped; the value returned is
\* also the new value of timed_out_for_game
CheckTimeout_AtBudget(flag, elapsed, timeout) == flag \/ elapsed >= timeout

\* (with the test of timed_out_for_game turned round: a check after a skip passes)
CheckTimeout_FlagForgotten(flag, elapsed, timeout) == ~flag /\ elapsed > timeout

CheckTimeout(flag, elapsed, timeout) ==
    IF flag THEN TRUE
    ELSE IF elapsed > timeout THEN TRUE
    ELSE FALSE

\* timed_out_for_game = False at the top of the loop body
TimedOutAtGameStart_Kept(previous) == previous

TimedOutAtGameStart(previous) == FALSE

\* the else-branches "Ensure key exists if timed out"
SkippedSignal_Omitted(signals, key) == signals

SkippedSignal(signals, key) == SetItem(signals, key, None)

\* game_signals['google_trends_avg'] from the frame get_google_trends_interest returns
GTrendsAvg_NoneWithoutData(result) ==
    IF result = None THEN None
    ELSE IF Val(result) = "ok" THEN Some(50)
    ELSE None

GTrendsAvg(result) ==
    IF result = None THEN None
    ELSE IF Val(result) = "ok" THEN Some(50)
    ELSE Some(0)

\* k.startswith(prefix) over the keys the connectors produce
KeyRests == {"", "N", "2"}
FindKey(d, prefix) ==
    IF \E rest \in KeyRests : (prefix \o rest) \in DOMAIN d
    THEN Some(CHOOSE k \in DOMAIN d : \E rest \in KeyRests : k = prefix \o rest)
    ELSE None

MergeYouTube(rw, youtube_data) ==
    LET total_views_key == FindKey(youtube_data, "total_views_top_")
        avg_views_key   == FindKey(youtube_data, "avg_views_top_")
        avg_likes_key   == FindKey(youtube_data, "avg_likes_top_")
        r1 == IF total_views_key # None
              THEN SetItem(rw, "youtube_total_views", youtube_data[Val(total_views_key)])
              ELSE rw
        r2 == IF avg_views_key # None
              THEN SetItem(r1, "youtube_avg_views", youtube_data[Val(avg_views_key)])
              ELSE r1
    IN  IF avg_likes_key # None
        THEN SetItem(r2, "youtube_avg_likes", youtube_data[Val(avg_likes_key)])
        ELSE r2

MergeRow(rw, external_signals_data) ==
    LET game_name    == rw["name"]
        signals      == external_signals_data[game_name]
        r1           == SetItem(rw, "google_trends_avg", DictGet(signals, "google_trends_avg"))
        reddit_data  == DictGet(signals, "reddit_data")
        r2           == IF reddit_data # None
                        THEN SetItem(SetItem(SetItem(r1,
                                "reddit_subscribers", Val(reddit_data).subscribers),
                                "reddit_active_users", Val(reddit_data).active_users),
                                "reddit_recent_posts", Val(reddit_data).recent_post_count)
                        ELSE r1
        twitter_data == DictGet(signals, "twitter_data")
        r3           == IF twitter_data # None
                        THEN SetItem(r2, "twitter_recent_count",
                                     Val(twitter_data).recent_tweet_count)
                        ELSE r2
        youtube_data == DictGet(signals, "youtube_data")
    IN  IF game_name # "" /\ game_name \in DOMAIN external_signals_data
        THEN IF youtube_data # None THEN MergeYouTube(r3, Val(youtube_data)) ELSE r3
        ELSE rw


\* one platform fault costs one unit of the run's fault budget
Cost(nominal) == IF nominal THEN 0 ELSE 1

RECURSIVE SeqsOver(_, _)
SeqsOver(S, n) ==
    IF n = 0 THEN {<<>>}
    ELSE LET shorter == SeqsOver(S, n - 1)
         IN  shorter \cup {Append(q, x) : q \in {q \in shorter : Len(q) = n - 1}, x \in S}

GameIdLists == SeqsOver(AppIds, MaxGames)

\* list(set(game_names_for_external)): the distinct names, in any order
Orderings(names) ==
    LET S == {names[j] : j \in DOMAIN names}
    IN  {q \in SeqsOver(S, Cardinality(S)) :
            Len(q) = Cardinality(S) /\ {q[j] : j \in DOMAIN q} = S}

NoClients == [c \in Connectors |-> FALSE]

Budgets == {gt_polite_sleep_s * TicksPerSecond, default_timeout_s * TicksPerSecond}

\* answers of Steam in a run: good, one failure and a good retry, failures only
SteamScripts == {<<>>, Rep("transient", 1), Rep("transient", max_retries)}

Init ==
    /\ now = StartTime
    /\ conn = "run"
    /\ clients \in {AllClients, NoClients}
    /\ steam = SteamInit
    /\ twitch = TwitchInit
    /\ twitter = TwitterInit
    /\ call = NoCall
    /\ auth_failed = FALSE
    /\ ncalls = 0
    /\ pc = "player_counts"
    /\ game_ids \in GameIdLists
    /\ timeout_per_game_seconds \in Budgets
    /\ faults = MaxFaults
    /\ idx = 1
    /\ player_counts = <<>>
    /\ data_rows = <<>>
    /\ row = EmptyDict
    /\ twitch_game_id = None
    /\ game_names = <<>>
    /\ game_start_time = 0
    /\ timed_out_for_game = FALSE
    /\ game_signals = EmptyDict
    /\ external_data = EmptyDict
    /\ checks = <<>>
    /\ timed_out_games = {}
    /\ AggIdle
    /\ MergeIdle
    /\ MethodIdle

\* get_multiple_player_counts: one pass of "for app_id in app_ids"
GetPlayerCount ==
    /\ pc = "player_counts" /\ idx <= Len(game_ids)
    /\ \E script \in SteamScripts :
          LET r == GetCurrentPlayerCount(steam, now, script)
          IN  /\ Cost(script = <<>>) <= faults
              /\ faults' = faults - Cost(script = <<>>)
              /\ player_counts' = DictPut(player_counts, game_ids[idx], r.count)
              /\ steam' = r.st
              /\ now' = r.t
    /\ idx' = idx + 1
    /\ UNCHANGED <<row, twitch_game_id, conn, clients, twitch, twitter, call, auth_failed, ncalls, pc, game_ids,
                   timeout_per_game_seconds, data_rows, game_names, game_start_time,
                   timed_out_for_game, game_signals, external_data, checks,
                   timed_out_games>>
    /\ UNCHANGED aggVars
    /\ UNCHANGED mergeVars
    /\ UNCHANGED methodVars

\* results['timestamp'] = ...; timestamp = player_counts.pop('timestamp')
PlayerCountsDone ==
    /\ pc = "player_counts" /\ idx > Len(game_ids)
    /\ pc' = "rows"
    /\ idx' = 1
    /\ UNCHANGED <<row, twitch_game_id, connVars, game_ids, timeout_per_game_seconds, faults, player_counts,
                   data_rows, game_names, game_start_time, timed_out_for_game,
                   game_signals, external_data, checks, timed_out_games>>
    /\ UNCHANGED aggVars
    /\ UNCHANGED mergeVars
    /\ UNCHANGED methodVars

\* top of "for app_id, player_count in player_counts.items()": the row with its
\* category and the Steam details.  The rows carry the time the player counts
\* were complete, which is the time the first row is built at.
StartRow ==
    /\ pc = "rows" /\ idx <= Len(player_counts)
    /\ \E script \in SteamScripts, payload \in {"data", "nodata", "missing"} :
          LET app_id    == player_counts[idx].app_id
              timestamp == IF data_rows = <<>> THEN now ELSE data_rows[1]["timestamp"]
              row0      == SetItem(InitialRow(app_id, player_counts[idx].player_count,
                                              timestamp),
                                   "category", CategoryOf(app_id))
              d         == GetAppDetails(steam, now, app_id, script, payload)
              has_data  == d.details # None /\ Val(d.details).data # None
              game_name == Val(Val(d.details).data)
              cost      == Cost(script = <<>>) + Cost(payload = "data")
          IN  /\ cost <= faults
              /\ faults' = faults - cost
              /\ steam' = d.st
              /\ now' = d.t
              /\ IF has_data
                 THEN /\ row' = SetItem(SetItem(row0, "name", game_name),
                                        "release_date", "date")
                      /\ game_names' = Append(game_names, game_name)
                      /\ pc' = "twitch"
                      /\ UNCHANGED <<data_rows, idx>>
                 ELSE \* no name: Twitch is left out, data_rows.append(row)
                      /\ data_rows' = Append(data_rows, row0)
                      /\ idx' = idx + 1
                      /\ UNCHANGED <<row, game_names, pc>>
    /\ UNCHANGED <<conn, clients, twitch, twitter, call, auth_failed, ncalls, game_ids,
                   timeout_per_game_seconds, player_counts, twitch_game_id,
                   game_start_time, timed_out_for_game, game_signals, external_data,
                   checks, timed_out_games>>
    /\ UNCHANGED aggVars
    /\ UNCHANGED mergeVars
    /\ UNCHANGED methodVars

\* twitch_game_id = self.twitch_api.get_game_id_by_name(twitch_name_to_query)
TwitchIdStep ==
    /\ pc = "twitch"
    /\ \E answer \in {"found", "notfound", "failed", "notoken"} :
          \E g \in {GetGameIdByName(twitch, now, clients["twitch"], row["name"],
                      IF answer = "failed" THEN Rep("transient", max_retries) ELSE <<>>,
                      IF answer = "notoken" THEN <<"fail">> ELSE <<>>,
                      answer # "notfound")} :
              /\ Cost(answer = "found") <= faults
              /\ faults' = faults - Cost(answer = "found")
              /\ twitch' = g.st
              /\ now' = g.t
              /\ IF g.game_id # None
                 THEN /\ twitch_game_id' = g.game_id
                      /\ pc' = "viewers"
                      /\ UNCHANGED <<row, data_rows, idx>>
                 ELSE /\ data_rows' = Append(data_rows, row)
                      /\ row' = EmptyDict
                      /\ idx' = idx + 1
                      /\ pc' = "rows"
                      /\ UNCHANGED twitch_game_id
    /\ UNCHANGED <<conn, clients, steam, twitter, call, auth_failed, ncalls, game_ids,
                   timeout_per_game_seconds, player_counts, game_names,
                   game_start_time, timed_out_for_game, game_signals, external_data,
                   checks, timed_out_games>>
    /\ UNCHANGED aggVars
    /\ UNCHANGED mergeVars
    /\ UNCHANGED methodVars

\* viewers = self.twitch_api.get_game_viewership(twitch_game_id)
\* row['twitch_viewer_count'] = viewers, and data_rows.append(row)
\* answer: streams are live, no stream is live, the answer has no 'data' entry,
\* or the request fails
ViewersStep ==
    /\ pc = "viewers"
    /\ \E answer \in {"streams", "nostreams", "nodata", "failed"} :
          LET gscript == IF answer = "failed" THEN Rep("transient", max_retries) ELSE <<>>
              data == IF answer = "nodata" THEN None
                      ELSE IF answer = "nostreams" THEN Some(<<>>) ELSE Some(<<5, 7>>)
          IN  \E v \in {GetGameViewership(twitch, now, clients["twitch"], gscript,
                                            <<>>, data)} :
              /\ Cost(answer = "streams") <= faults
              /\ faults' = faults - Cost(answer = "streams")
              /\ twitch' = v.st
              /\ now' = v.t
              /\ data_rows' = Append(data_rows,
                                     SetItem(row, "twitch_viewer_count", v.viewers))
              /\ call' = [conn |-> "twitch", script |-> gscript, data |-> data,
                          gets |-> v.gets, result |-> v.viewers]
    /\ row' = EmptyDict
    /\ twitch_game_id' = None
    /\ idx' = idx + 1
    /\ pc' = "rows"
    /\ UNCHANGED <<conn, clients, steam, twitter, auth_failed, ncalls, game_ids,
                   timeout_per_game_seconds, player_counts, game_names,
                   game_start_time, timed_out_for_game, game_signals, external_data,
                   checks, timed_out_games>>
    /\ UNCHANGED aggVars
    /\ UNCHANGED mergeVars
    /\ UNCHANGED methodVars

\* "if include_external and game_names_for_external": enter collect_external_signals
RowsDone ==
    /\ pc = "rows" /\ idx > Len(player_counts)
    /\ IF game_names # <<>>
       THEN /\ game_names' \in Orderings(game_names)
            /\ pc' = "game_start"
       ELSE /\ pc' = "merge"
            /\ UNCHANGED game_names
    /\ idx' = 1
    /\ UNCHANGED <<row, twitch_game_id, connVars, game_ids, timeout_per_game_seconds, faults, player_counts,
                   data_rows, game_start_time, timed_out_for_game, game_signals,
                   external_data, checks, timed_out_games>>
    /\ UNCHANGED aggVars
    /\ UNCHANGED mergeVars
    /\ UNCHANGED methodVars

\* top of "for name in game_names"
GameStart ==
    /\ pc = "game_start" /\ idx <= Len(game_names)
    /\ game_start_time' = now
    /\ game_signals' = EmptyDict
    /\ timed_out_for_game' = TimedOutAtGameStart(timed_out_for_game)
    /\ checks' = <<>>
    /\ pc' = "gtrends"
    /\ UNCHANGED <<row, twitch_game_id, connVars, game_ids, timeout_per_game_seconds, faults, idx,
                   player_counts, data_rows, game_names, external_data, timed_out_games>>
    /\ UNCHANGED aggVars
    /\ UNCHANGED mergeVars
    /\ UNCHANGED methodVars

\* time.time() when the loop goes on after a connector call entered at time
\* entered: the call, its sleeps included, runs in the loop's own thread
\* (the call detached from the loop)
ReturnTime_Detached(raised, entered, returned) == entered

ReturnTime(raised, entered, returned) == IF raised THEN entered ELSE returned

\* "try: ... except Exception as e:" around each connector call: the exception a
\* connector raises ends in the connector's own block
\* (without the except clause)
Handled_Propagates(raised) == ~raised

Handled(raised) == TRUE

\* where the loop body goes on after a connector call
AfterConnector(raised, following) == IF Handled(raised) THEN following ELSE "aborted"

\* how an invoked connector ended: it raised, it had no client, its platform call
\* failed, the platform had no data, or it answered
Outcome(raised, client, failure, no_data) ==
    IF raised THEN "raised"
    ELSE IF ~client THEN "unconfigured"
    ELSE IF failure THEN "failed"
    ELSE IF no_data THEN "no_data"
    ELSE "answered"

\* one check_timeout call and what followed it; carried is the time the connector
\* then waited for a cooldown that an earlier call had set
Check(signal_name, skip, invoked, outcome, carried) ==
    [signal_name |-> signal_name, t |-> now, skip |-> skip, invoked |-> invoked,
     outcome |-> outcome, carried |-> carried]

\* 1. Google Trends
GTrendsScripts == {<<>>, <<"empty">>, <<"nokey">>, <<"transient">>}
                      \cup {Rep("throttled", k) : k \in 1 .. gt_retries + 1}

GoogleTrendsStep ==
    /\ pc = "gtrends"
    /\ LET skip == CheckTimeout(timed_out_for_game, now - game_start_time,
                                timeout_per_game_seconds)
       IN  /\ timed_out_for_game' = skip
           /\ IF skip
              THEN /\ game_signals' = SkippedSignal(game_signals, "google_trends_avg")
                   /\ checks' = Append(checks, Check("Google Trends", TRUE, FALSE, "skipped", 0))
                   /\ pc' = "reddit"
                   /\ UNCHANGED <<now, faults>>
              ELSE \E script \in GTrendsScripts, raised \in BOOLEAN :
                      LET r == GetGoogleTrends(now, clients["gtrends"], script)
                      IN  /\ raised => script = <<>>
                          /\ pc' = AfterConnector(raised, "reddit")
                          /\ Cost(script = <<>> /\ ~raised) <= faults
                          /\ faults' = faults - Cost(script = <<>> /\ ~raised)
                          /\ game_signals' = SetItem(game_signals, "google_trends_avg",
                                                IF raised THEN None
                                                ELSE GTrendsAvg(r.result))
                          /\ now' = ReturnTime(raised, now, r.t)
                          /\ checks' = Append(checks, Check("Google Trends", FALSE, TRUE,
                                               Outcome(raised, clients["gtrends"], r.result = None,
                                                       r.result # Some("ok")), 0))
    /\ UNCHANGED <<row, twitch_game_id, conn, clients, steam, twitch, twitter, call, auth_failed, ncalls, game_ids,
                   timeout_per_game_seconds, idx, player_counts, data_rows, game_names,
                   game_start_time, external_data, timed_out_games>>
    /\ UNCHANGED aggVars
    /\ UNCHANGED mergeVars
    /\ UNCHANGED methodVars

\* 2. Reddit Data
RedditScripts == {<<>>, <<"search_failed">>, <<"notfound">>}

RedditStep ==
    /\ pc = "reddit"
    /\ LET skip == CheckTimeout(timed_out_for_game, now - game_start_time,
                                timeout_per_game_seconds)
       IN  /\ timed_out_for_game' = skip
           /\ IF skip
              THEN /\ game_signals' = SkippedSignal(game_signals, "reddit_data")
                   /\ checks' = Append(checks, Check("Reddit Data", TRUE, FALSE, "skipped", 0))
                   /\ pc' = "twitter"
                   /\ UNCHANGED <<now, faults>>
              ELSE \E script \in RedditScripts, raised \in BOOLEAN :
                      LET r == GetRedditData(now, clients["reddit"], script)
                      IN  /\ raised => script = <<>>
                          /\ pc' = AfterConnector(raised, "twitter")
                          /\ Cost(script = <<>> /\ ~raised) <= faults
                          /\ faults' = faults - Cost(script = <<>> /\ ~raised)
                          /\ game_signals' = SetItem(game_signals, "reddit_data",
                                                IF raised THEN None ELSE Some(r.result))
                          /\ now' = ReturnTime(raised, now, r.t)
                          /\ checks' = Append(checks, Check("Reddit Data", FALSE, TRUE,
                                               Outcome(raised, clients["reddit"],
                                                       script = <<"notfound">>, FALSE), 0))
    /\ UNCHANGED <<row, twitch_game_id, conn, clients, steam, twitch, twitter, call, auth_failed, ncalls, game_ids,
                   timeout_per_game_seconds, idx, player_counts, data_rows, game_names,
                   game_start_time, external_data, timed_out_games>>
    /\ UNCHANGED aggVars
    /\ UNCHANGED mergeVars
    /\ UNCHANGED methodVars

\* 3. Twitter Data
TwitterScripts == {<<>>, <<"errors">>, <<"throttled">>, <<"transient">>}

TwitterStep ==
    /\ pc = "twitter"
    /\ LET skip == CheckTimeout(timed_out_for_game, now - game_start_time,
                                timeout_per_game_seconds)
       IN  /\ timed_out_for_game' = skip
           /\ IF skip
              THEN /\ game_signals' = SkippedSignal(game_signals, "twitter_data")
                   /\ checks' = Append(checks, Check("Twitter Data", TRUE, FALSE, "skipped", 0))
                   /\ pc' = "youtube"
                   /\ UNCHANGED <<now, faults, twitter>>
              ELSE \E script \in TwitterScripts, raised \in BOOLEAN :
                      LET r == GetTwitterData(twitter, now, clients["twitter"], script)
                      IN  /\ raised => script = <<>>
                          /\ pc' = AfterConnector(raised, "youtube")
                          /\ Cost(script = <<>> /\ ~raised) <= faults
                          /\ faults' = faults - Cost(script = <<>> /\ ~raised)
                          /\ game_signals' = SetItem(game_signals, "twitter_data",
                                                IF raised THEN None ELSE Some(r.result))
                          /\ now' = ReturnTime(raised, now, r.t)
                          /\ twitter' = IF raised THEN twitter ELSE r.st
                          /\ checks' = Append(checks, Check("Twitter Data", FALSE, TRUE,
                                               Outcome(raised, clients["twitter"],
                                                       script # <<>>, FALSE),
                                               IF raised \/ ~clients["twitter"] THEN 0
                                               ELSE CooldownWait(twitter, now)))
    /\ UNCHANGED <<row, twitch_game_id, conn, clients, steam, twitch, call, auth_failed, ncalls, game_ids,
                   timeout_per_game_seconds, idx, player_counts, data_rows, game_names,
                   game_start_time, external_data, timed_out_games>>
    /\ UNCHANGED aggVars
    /\ UNCHANGED mergeVars
    /\ UNCHANGED methodVars

\* 4. YouTube Data, and external_data[name] = game_signals
YouTubeScripts == {<<>>, <<"novideos">>, <<"transient">>}

YouTubeStep ==
    /\ pc = "youtube"
    /\ LET skip == CheckTimeout(timed_out_for_game, now - game_start_time,
                                timeout_per_game_seconds)
       IN  /\ timed_out_for_game' = skip
           /\ timed_out_games' = IF skip THEN timed_out_games \cup {game_names[idx]}
                                 ELSE timed_out_games
           /\ IF skip
              THEN /\ game_signals' = SkippedSignal(game_signals, "youtube_data")
                   /\ checks' = Append(checks, Check("YouTube Data", TRUE, FALSE, "skipped", 0))
                   /\ pc' = "game_start"
                   /\ UNCHANGED <<now, faults>>
              ELSE \E script \in YouTubeScripts, raised \in BOOLEAN :
                      LET r == GetYouTubeData(now, clients["youtube"], script)
                      IN  /\ raised => script = <<>>
                          /\ pc' = AfterConnector(raised, "game_start")
                          /\ Cost(script = <<>> /\ ~raised) <= faults
                          /\ faults' = faults - Cost(script = <<>> /\ ~raised)
                          /\ game_signals' = SetItem(game_signals, "youtube_data",
                                                IF raised THEN None ELSE Some(r.result))
                          /\ now' = ReturnTime(raised, now, r.t)
                          /\ checks' = Append(checks, Check("YouTube Data", FALSE, TRUE,
                                               Outcome(raised, clients["youtube"],
                                                       script = <<"transient">>,
                                                       script = <<"novideos">>), 0))
    /\ external_data' = IF pc' = "aborted" THEN external_data
                         ELSE SetItem(external_data, game_names[idx], game_signals')
    /\ idx' = IF pc' = "aborted" THEN idx ELSE idx + 1
    /\ UNCHANGED <<row, twitch_game_id, conn, clients, steam, twitch, twitter, call, auth_failed, ncalls, game_ids,
                   timeout_per_game_seconds, player_counts, data_rows, game_names,
                   game_start_time>>
    /\ UNCHANGED aggVars
    /\ UNCHANGED mergeVars
    /\ UNCHANGED methodVars

\* return external_data
ExternalDone ==
    /\ pc = "game_start" /\ idx > Len(game_names)
    /\ pc' = "merge"
    /\ UNCHANGED <<row, twitch_game_id, connVars, game_ids, timeout_per_game_seconds, faults, idx,
                   player_counts, data_rows, game_names, game_start_time,
                   timed_out_for_game, game_signals, external_data, checks,
                   timed_out_games>>
    /\ UNCHANGED aggVars
    /\ UNCHANGED mergeVars
    /\ UNCHANGED methodVars

\* "Merge external signals back into data_rows" and return the frame
Merge ==
    /\ pc = "merge"
    /\ data_rows' = IF external_data # EmptyDict
                    THEN [j \in DOMAIN data_rows |-> MergeRow(data_rows[j], external_data)]
                    ELSE data_rows
    /\ pc' = "done"
    /\ UNCHANGED <<row, twitch_game_id, connVars, game_ids, timeout_per_game_seconds, faults, idx,
                   player_counts, game_names, game_start_time, timed_out_for_game,
                   game_signals, external_data, checks, timed_out_games>>
    /\ UNCHANGED aggVars
    /\ UNCHANGED mergeVars
    /\ UNCHANGED methodVars

Next ==
    \/ GetPlayerCount
    \/ PlayerCountsDone
    \/ StartRow
    \/ TwitchIdStep
    \/ ViewersStep
    \/ RowsDone
    \/ GameStart
    \/ GoogleTrendsStep
    \/ RedditStep
    \/ TwitterStep
    \/ YouTubeStep
    \/ ExternalDone
    \/ Merge

Spec == Init /\ [][Next]_vars

\* the interpreter keeps running the call until it returns
FairSpec == Init /\ [][Next]_vars /\ WF_vars(Next)


-----------------------------------------------------------------------------
(* Claims about a collection run *)

Elapsed(j) == checks[j].t - game_start_time

Requested == {game_ids[j] : j \in DOMAIN game_ids}

\* C1: every bundle collect_external_signals emits has the four signal keys, and
\* every row collect_current_data builds has every metric key, whatever the
\* connectors did (value, failure value, raised exception, skipped by timeout).
C1_NoKeyMissing ==
    /\ \A name \in DOMAIN external_data : DOMAIN external_data[name] = SignalKeys
    /\ \A j \in DOMAIN data_rows : MetricKeys \subseteq DOMAIN data_rows[j]

\* a finished run with a merged row whose game had a connector skipped by the
\* timeout, a connector that failed or raised, and a connector that answered
C1_Witness ==
    /\ pc = "done"
    /\ \E j \in DOMAIN data_rows :
          LET name == data_rows[j]["name"]
          IN  /\ name \in DOMAIN external_data
              /\ name \in timed_out_games
              /\ external_data[name]["google_trends_avg"] = None
              /\ external_data[name]["reddit_data"] # None
              /\ external_data[name]["youtube_data"] = None
              /\ faults < MaxFaults

RunComplete ==
    /\ pc = "done"
    /\ \A j \in DOMAIN game_names : game_names[j] \in DOMAIN external_data
    /\ Len(data_rows) = Cardinality(Requested)
    /\ \A id \in Requested : \E j \in DOMAIN data_rows : data_rows[j]["app_id"] = id

\* C2: a run always completes: collect_external_signals ends with an entry for
\* every game name it was given, and collect_current_data returns one row for
\* every distinct requested game id, whatever failures and timeouts occur.
C2_RunCompletes == <>RunComplete

\* a finished run over a list that repeats an id, with a platform fault and a
\* game that ran out of its budget
C2_Witness ==
    /\ RunComplete
    /\ Len(game_ids) > Cardinality(Requested)
    /\ faults < MaxFaults
    /\ timed_out_games # {}

\* C7 as stated: a connector is not invoked when the elapsed time since the game's
\* start has reached timeout_per_game_seconds (elapsed >= timeout).
C7_SkippedAtBudget ==
    \A j \in DOMAIN checks :
        Elapsed(j) >= timeout_per_game_seconds => ~checks[j].invoked

\* C7: before each connector the elapsed time since the game's start is checked;
\* the connector is skipped exactly when the elapsed time exceeds
\* timeout_per_game_seconds (elapsed > timeout) or an earlier connector of the game
\* was skipped; a skipped connector is not invoked, and the loop goes on to the
\* next game.
C7_SkippedPastBudget ==
    /\ \A j \in DOMAIN checks :
          /\ checks[j].skip <=>
                (Elapsed(j) > timeout_per_game_seconds \/ (j > 1 /\ checks[j - 1].skip))
          /\ checks[j].skip => ~checks[j].invoked
    /\ pc = "game_start" =>
          /\ idx - 1 <= Len(game_names)
          /\ \A j \in 1 .. idx - 1 : game_names[j] \in DOMAIN external_data

\* the second game of a run is through: its second connector was invoked with the
\* budget exactly used up, its third and fourth were skipped, after the first
\* game had timed out as well
C7_Witness ==
    /\ pc = "game_start" /\ idx = 3
    /\ Len(checks) = 4
    /\ Elapsed(2) = timeout_per_game_seconds /\ checks[2].invoked
    /\ checks[3].skip /\ checks[4].skip
    /\ Cardinality(timed_out_games) = 2

\* C8: a timeout in one game does not affect another game: at the top of every
\* game the timed-out status is cleared and the game gets its own start time, a
\* skip is always due to this game's own elapsed time, and the first connector of
\* every game is attempted when the budget is positive.
C8_TimeoutsStayInTheirGame ==
    /\ pc = "gtrends" => ~timed_out_for_game /\ game_start_time = now /\ checks = <<>>
    /\ (checks # <<>> /\ timeout_per_game_seconds > 0) =>
          checks[1].invoked /\ ~checks[1].skip /\ Elapsed(1) = 0
    /\ \A j \in DOMAIN checks :
          checks[j].skip => \E k \in 1 .. j : Elapsed(k) > timeout_per_game_seconds

\* the first game timed out; the first connector of the second game was invoked
C8_Witness ==
    /\ pc = "reddit" /\ idx = 2
    /\ game_names[1] \in timed_out_games
    /\ checks[1].invoked


\* the connectors, in the order of the loop body
ConnectorOrder == <<"Google Trends", "Reddit Data", "Twitter Data", "YouTube Data">>

\* the check_timeout calls made so far in the game, by the position of the run
ChecksMade ==
    CASE pc = "gtrends" -> 0
      [] pc = "reddit"  -> 1
      [] pc = "twitter" -> 2
      [] pc = "youtube" -> 3
      [] OTHER          -> Len(checks)

SignalKey(signal_name) ==
    CASE signal_name = "Google Trends" -> "google_trends_avg"
      [] signal_name = "Reddit Data"   -> "reddit_data"
      [] signal_name = "Twitter Data"  -> "twitter_data"
      [] signal_name = "YouTube Data"  -> "youtube_data"

\* what the bundle holds under a key whose connector was skipped
SkippedValue(key) == SkippedSignal(EmptyDict, key)[key]

\* C16 as stated: the value recorded for a connector that was invoked and whose
\* platform call failed differs from the value recorded for that connector when
\* it is skipped because the budget is used up.
C16_SkipDistinctFromFailure ==
    \A j \in DOMAIN checks :
        checks[j].outcome = "failed" =>
            game_signals[SignalKey(checks[j].signal_name)]
                # SkippedValue(SignalKey(checks[j].signal_name))

\* results[app_id] in the dict get_multiple_player_counts builds
PlayerCountOf(d, app_id) ==
    d[CHOOSE j \in DOMAIN d : d[j].app_id = app_id].player_count

\* every attempt of the Steam request of this step failed
SteamRequestFailed == steam'.error_count = steam.error_count + max_retries

GTrendsChecks(outcomes) ==
    {j \in DOMAIN checks :
        checks[j].signal_name = "Google Trends" /\ checks[j].outcome \in outcomes}

ConnectorSteps == {"gtrends", "reddit", "twitter", "youtube"}

\* C18 as stated: while a connector call of one game is under way, its sleeps
\* included, the connectors of the next game can be started.
C18_SleepsAreLocal ==
    [](pc \in ConnectorSteps /\ idx < Len(game_names) => ENABLED GameStart)

\* C18: the run is a single task and every sleep stalls all of it.  A connector
\* call starts at the time the step before it returned; the 5 s Google Trends
\* sleep and the 1 s Reddit sleep of an answered call are over before the next
\* connector is looked at; a game starts only at the top of the loop, after the
\* bundle of every earlier game is stored, and at the current time.
C18_SleepsStallTheRun ==
    [][/\ now' >= now
       /\ Len(checks') > Len(checks) =>
             LET c == checks'[Len(checks')]
             IN  /\ c.t = now
                 /\ (c.signal_name = "Google Trends"
                        /\ c.outcome \in {"answered", "no_data"})
                       => now' >= now + gt_polite_sleep_s * TicksPerSecond
                 /\ (c.signal_name = "Reddit Data" /\ c.outcome = "answered")
                       => now' >= now + reddit_polite_sleep_s * TicksPerSecond
       /\ game_start_time' # game_start_time =>
             /\ pc = "game_start" /\ game_start_time' = now
             /\ \A j \in 1 .. idx - 1 : game_names[j] \in DOMAIN external_data
      ]_vars

\* the Twitter call of the second game has slept (its governor made it wait for
\* the minimum interval since the first game's call) and the YouTube call of the
\* game is only now being looked at
C18_Witness ==
    /\ pc = "youtube" /\ idx = 2
    /\ Len(checks) = 3 /\ checks[3].outcome = "answered"
    /\ now > checks[3].t

\* the time the first j checks' connectors waited for cooldowns set before the game
RECURSIVE CarriedWait(_)
CarriedWait(j) == IF j = 0 THEN 0 ELSE checks[j].carried + CarriedWait(j - 1)

\* C19 as stated: a connector of a game is skipped for timeout only if it would
\* have been skipped also without the waits that throttling met by an earlier game
\* imposes on this game: the game's elapsed time less those waits exceeds the
\* budget.
C19_NoStarvation ==
    \A j \in DOMAIN checks :
        (checks[j].skip /\ (j = 1 \/ ~checks[j - 1].skip)) =>
            Elapsed(j) - CarriedWait(j - 1) > timeout_per_game_seconds

-----------------------------------------------------------------------------
(* DataAggregator.aggregate_features                                           *)
(*                                                                             *)
(* A frame is the sequence of its rows.  Times are whole days.  Every metric   *)
(* column of a row carries the row's one value, None where the cell is NA.     *)
(* Numbers the aggregation produces are fractions num/den; 0/0 is NaN.         *)
(* A timestamp cell holds a day, nothing, or text that is no date.             *)

MaxRows == 2        \* rows in a frame
MaxDay == 4         \* timestamps are days 0 .. MaxDay
ReleaseDay == 2

\* the timestamp cell whose text is not a date
NotADate == MaxDay + 2

\* pd.to_datetime(cell, errors='coerce'): NaT for what is no date
\* (with errors='ignore': the cell is left as it is)
ToDatetime_AsIs(cell) == cell

ToDatetime(cell) == IF cell # None /\ Val(cell) = NotADate THEN None ELSE cell

\* "Convert types robustly", on the frame itself
ConvertTypes(frame) ==
    [j \in DOMAIN frame |->
        [frame[j] EXCEPT !.timestamp = ToDatetime(@), !.release_date = ToDatetime(@)]]

Num(x) == [num |-> x, den |-> 1]
NaN == [num |-> 0, den |-> 0]

\* the cell of a row in a metric column
Metric(r, col) == r.value

Column(frame, col) == [j \in DOMAIN frame |-> Metric(frame[j], col)]

\* series.dropna()
DropNone(series) == SelectSeq(series, LAMBDA v : v # None)

\* series.dropna().iloc[-1] if not series.dropna().empty else None
\* (with iloc[0])
LastKnown_First(series) ==
    LET present == DropNone(series)
    IN  IF present = <<>> THEN None ELSE present[1]

LastKnown(series) ==
    LET present == DropNone(series)
    IN  IF present = <<>> THEN None ELSE present[Len(present)]

Values(series) == [j \in DOMAIN DropNone(series) |-> Val(DropNone(series)[j])]

\* series.mean(skipna=True): NaN for a series without values
\* (with the cells without value counted as zero)
MeanSkipNa_NaAsZero(series) ==
    IF series = <<>> THEN NaN
    ELSE [num |-> SumSeq(Values(series)), den |-> Len(series)]

MeanSkipNa_ZeroWhenEmpty(series) ==
    IF DropNone(series) = <<>> THEN Num(0)
    ELSE [num |-> SumSeq(Values(series)), den |-> Len(DropNone(series))]

MeanSkipNa(series) ==
    IF DropNone(series) = <<>> THEN NaN
    ELSE [num |-> SumSeq(Values(series)), den |-> Len(DropNone(series))]

\* series.max(skipna=True): NaN for a series without values
MaxSkipNa(series) ==
    LET vals == Values(series)
    IN  IF vals = <<>> THEN NaN
        ELSE Num(CHOOSE m \in {vals[j] : j \in DOMAIN vals} :
                    \A j \in DOMAIN vals : vals[j] <= m)

\* None if pd.isna(v) else v
NoneIfNa(v) == IF v.den = 0 THEN None ELSE Some(v)

\* merged_data.dropna(subset=['app_id', 'timestamp'], inplace=True)
\* (a dropna that takes the frame's last row along)
Dropna_LastRowToo(frame) ==
    LET kept == SelectSeq(frame, LAMBDA r : r.app_id # None /\ r.timestamp # None)
    IN  IF kept = <<>> THEN kept ELSE SubSeq(kept, 1, Len(kept) - 1)

\* (with subset=['app_id'] only)
Dropna_AppIdOnly(frame) == SelectSeq(frame, LAMBDA r : r.app_id # None)

Dropna(frame) == SelectSeq(frame, LAMBDA r : r.app_id # None /\ r.timestamp # None)

\* the rows of one group of merged_data.groupby('app_id')
Group(frame, app_id) == SelectSeq(frame, LAMBDA r : r.app_id = Some(app_id))

\* (group['timestamp'] >= start) & (group['timestamp'] < end)
InWindow_EndIncluded(timestamp, start, end) == timestamp >= start /\ timestamp <= end

InWindow(timestamp, start, end) == timestamp >= start /\ timestamp < end

\* a comparison with NaT is False
Between(group, start, end) ==
    SelectSeq(group, LAMBDA r : r.timestamp # None
                                   /\ InWindow(Val(r.timestamp), start, end))

\* the three filters of a group, for the game's release date
\* (a pre-release filter that runs through the release day)
PreReleaseData_ThroughRelease(group, release_date, pre_days) ==
    Between(group, release_date - pre_days, release_date + 1)

PreReleaseData(group, release_date, pre_days) ==
    Between(group, release_date - pre_days, release_date)

PostLaunchDataPeak(group, release_date, peak_days) ==
    Between(group, release_date, release_date + peak_days)

PostLaunchDataAvg(group, release_date, avg_days) ==
    Between(group, release_date, release_date + avg_days)

\* static_features: "the most recent non-null value available for the game"
\* (taken from the pre-release rows only)
StaticFeature_PreReleaseOnly(group, pre_release_data, col) ==
    LastKnown(Column(pre_release_data, col))

StaticFeature(group, pre_release_data, col) == LastKnown(Column(group, col))

\* the body of "for app_id, group in grouped" for a game with a release date
ResultRow(app_id, group, release_date, pre_days, peak_days, avg_days) ==
    LET names                 == DropNone([j \in DOMAIN group |-> group[j].name])
        pre_release_data      == PreReleaseData(group, release_date, pre_days)
        post_launch_data_peak == PostLaunchDataPeak(group, release_date, peak_days)
        post_launch_data_avg  == PostLaunchDataAvg(group, release_date, avg_days)
    IN  [app_id                |-> app_id,
         game_name             |-> IF names = <<>> THEN "Unknown Game"
                                   ELSE Val(names[Len(names)]),
         release_date          |-> release_date,
         metacritic_score      |->
            StaticFeature(group, pre_release_data, "metacritic_score"),
         google_trends_avg_pre |->
            NoneIfNa(MeanSkipNa(Column(pre_release_data, "google_trends_avg"))),
         reddit_posts_avg_pre  |->
            NoneIfNa(MeanSkipNa(Column(pre_release_data, "reddit_recent_posts"))),
         twitter_count_avg_pre |->
            NoneIfNa(MeanSkipNa(Column(pre_release_data, "twitter_recent_count"))),
         reddit_subs_pre       |->
            LastKnown(Column(pre_release_data, "reddit_subscribers")),
         reddit_active_pre     |->
            LastKnown(Column(pre_release_data, "reddit_active_users")),
         steam_peak_players    |->
            NoneIfNa(MaxSkipNa(Column(post_launch_data_peak, "player_count"))),
         twitch_peak_viewers   |->
            NoneIfNa(MaxSkipNa(Column(post_launch_data_peak, "twitch_viewer_count"))),
         steam_avg_players     |->
            NoneIfNa(MeanSkipNa(Column(post_launch_data_avg, "player_count"))),
         twitch_avg_viewers    |->
            NoneIfNa(MeanSkipNa(Column(post_launch_data_avg, "twitch_viewer_count")))]

\* the groups in the order groupby yields them: ascending app_id
\* (the loop with "break" where the code has "continue")
RECURSIVE ResultRows_StopAtMissing(_, _, _, _, _)
ResultRows_StopAtMissing(frame, ids, pre_days, peak_days, avg_days) ==
    IF ids = {} THEN <<>>
    ELSE LET app_id       == CHOOSE a \in ids : \A b \in ids : a <= b
             group        == Group(frame, app_id)
             release_date == LastKnown([j \in DOMAIN group |-> group[j].release_date])
         IN  IF release_date = None
             THEN <<>>
             ELSE <<ResultRow(app_id, group, Val(release_date),
                              pre_days, peak_days, avg_days)>>
                  \o ResultRows_StopAtMissing(frame, ids \ {app_id},
                                              pre_days, peak_days, avg_days)

RECURSIVE ResultRows(_, _, _, _, _)
ResultRows(frame, ids, pre_days, peak_days, avg_days) ==
    IF ids = {} THEN <<>>
    ELSE LET app_id       == CHOOSE a \in ids : \A b \in ids : a <= b
             group        == Group(frame, app_id)
             release_date == LastKnown([j \in DOMAIN group |-> group[j].release_date])
             rest         == ResultRows(frame, ids \ {app_id}, pre_days, peak_days, avg_days)
         IN  IF release_date = None
             THEN rest      \* "Skipping game ...: Missing release date."
             ELSE <<ResultRow(app_id, group, Val(release_date),
                              pre_days, peak_days, avg_days)>> \o rest

\* the returned frame, for the frame the caller passes
AggregateFeatures(frame, pre_days, peak_days, avg_days) ==
    LET kept == Dropna(ConvertTypes(frame))
    IN  IF frame = <<>> THEN <<>>
        ELSE ResultRows(kept, {Val(kept[j].app_id) : j \in DOMAIN kept},
                        pre_days, peak_days, avg_days)

-----------------------------------------------------------------------------
(* Aggregation runs: one call of aggregate_features on a frame as               *)
(* load_merged_data returns it                                                 *)

MetricValues == {None, Some(0), Some(2)}

\* rows of a game that carry a timestamp, with or without a release date
GameRows ==
    {[app_id |-> Some(a), name |-> Some(NameOf(a)), timestamp |-> Some(d),
      release_date |-> r, value |-> v] :
        a \in AppIds, d \in 0 .. MaxDay,
        r \in {None, Some(ReleaseDay)}, v \in MetricValues}

\* rows of a game whose timestamp cell is empty
UndatedRows ==
    {[app_id |-> Some(a), name |-> Some(NameOf(a)), timestamp |-> None,
      release_date |-> Some(ReleaseDay), value |-> Some(2)] : a \in AppIds}

\* rows whose app_id cell is empty
UnidentifiedRows ==
    {[app_id |-> None, name |-> None, timestamp |-> t,
      release_date |-> Some(ReleaseDay), value |-> Some(2)] :
        t \in {None, Some(ReleaseDay)}}

\* rows whose timestamp cell is no date
UnparseableRows ==
    {[app_id |-> Some(a), name |-> Some(NameOf(a)), timestamp |-> Some(NotADate),
      release_date |-> Some(ReleaseDay), value |-> Some(2)] : a \in AppIds}

FrameRows == GameRows \cup UndatedRows \cup UnidentifiedRows \cup UnparseableRows

\* load_merged_data returns the rows sorted by timestamp, those without a date last
SortKey(r) == IF r.timestamp = None THEN MaxDay + 1 ELSE Val(r.timestamp)

RECURSIVE SortedFrames(_)
SortedFrames(n) ==
    IF n = 0 THEN {<<>>}
    ELSE LET shorter == SortedFrames(n - 1)
             longest == {f \in shorter : Len(f) = n - 1}
         IN  shorter \cup
             {Append(x[1], x[2]) :
                 x \in {y \in longest \X FrameRows :
                           y[1] = <<>> \/ SortKey(y[1][Len(y[1])]) <= SortKey(y[2])}}

Frames == SortedFrames(MaxRows)

\* the windows of a call, in days
WindowChoices == {[pre |-> 1, peak |-> 1, avg |-> 2], [pre |-> 2, peak |-> 2, avg |-> 1]}

AggInit ==
    /\ now = StartTime
    /\ conn = "none"
    /\ clients = AllClients
    /\ steam = SteamInit
    /\ twitch = TwitchInit
    /\ twitter = TwitterInit
    /\ call = NoCall
    /\ auth_failed = FALSE
    /\ ncalls = 0
    /\ RunIdle
    /\ merged_data \in Frames
    /\ \E w \in WindowChoices :
          /\ pre_release_days = w.pre
          /\ post_launch_days_peak = w.peak
          /\ post_launch_days_avg = w.avg
    /\ passed_data = <<>>
    /\ aggregated = None
    /\ previous_output = None
    /\ MergeIdle
    /\ MethodIdle

\* aggregate_features(merged_data, ...), called a first and a second time on the
\* same frame object: the frame is prepared in place
Aggregate ==
    /\ previous_output = None
    /\ previous_output' = aggregated
    /\ passed_data' = IF aggregated = None THEN merged_data ELSE passed_data
    /\ merged_data' = IF merged_data = <<>> THEN merged_data
                       ELSE Dropna(ConvertTypes(merged_data))
    /\ aggregated' = Some(AggregateFeatures(merged_data, pre_release_days,
                                            post_launch_days_peak, post_launch_days_avg))
    /\ UNCHANGED <<connVars, runVars, pre_release_days, post_launch_days_peak,
                   post_launch_days_avg>>
    /\ UNCHANGED mergeVars
    /\ UNCHANGED methodVars

AggNext == Aggregate

SpecAgg == AggInit /\ [][AggNext]_vars

-----------------------------------------------------------------------------
(* Aggregation runs on the history of one game, in any row order: a frame the   *)
(* caller has built or reordered, not one load_merged_data has just sorted.     *)
(* The game changes its name and its release date over time, and a row may    *)
(* lack its name, its release date or its metric.                              *)

HistoryRows ==
    {[app_id       |-> Some(1),
      name         |-> IF blank = "name" THEN None
                       ELSE Some(IF late THEN "g1_renamed" ELSE NameOf(1)),
      timestamp    |-> t,
      release_date |-> IF blank = "release_date" THEN None
                       ELSE Some(IF late THEN ReleaseDay + 1 ELSE ReleaseDay),
      value        |-> IF blank = "value" THEN None
                       ELSE Some(IF late THEN 2 ELSE 0)] :
        late \in BOOLEAN, blank \in {"nothing", "name", "release_date", "value"},
        t \in {None} \cup {Some(d) : d \in 0 .. ReleaseDay}}

AnyOrderFrames == SeqsOver(HistoryRows, MaxRows)

AggInitAnyOrder ==
    /\ now = StartTime
    /\ conn = "none"
    /\ clients = AllClients
    /\ steam = SteamInit
    /\ twitch = TwitchInit
    /\ twitter = TwitterInit
    /\ call = NoCall
    /\ auth_failed = FALSE
    /\ ncalls = 0
    /\ RunIdle
    /\ merged_data \in AnyOrderFrames
    /\ \E w \in WindowChoices :
          /\ pre_release_days = w.pre
          /\ post_launch_days_peak = w.peak
          /\ post_launch_days_avg = w.avg
    /\ passed_data = <<>>
    /\ aggregated = None
    /\ previous_output = None
    /\ MergeIdle
    /\ MethodIdle

SpecAggAnyOrder == AggInitAnyOrder /\ [][AggNext]_vars

-----------------------------------------------------------------------------
(* Claims about aggregate_features *)

\* the row's timestamp cell holds a date
HasTimestamp(r) == r.timestamp # None /\ Val(r.timestamp) # NotADate

\* positions in the passed frame of the rows of a game whose timestamp t has
\* lo <= t < hi
RowsWithin(app_id, lo, hi) ==
    {j \in DOMAIN passed_data :
        /\ passed_data[j].app_id = Some(app_id)
        /\ HasTimestamp(passed_data[j])
        /\ lo <= Val(passed_data[j].timestamp)
        /\ Val(passed_data[j].timestamp) < hi}

Present(S) == {j \in S : passed_data[j].value # None}

RECURSIVE Total(_)
Total(S) ==
    IF S = {} THEN 0
    ELSE LET j == CHOOSE k \in S : TRUE
         IN  Val(passed_data[j].value) + Total(S \ {j})

\* the mean and the peak of the metric over the rows at the positions S
MeanOver(S) ==
    LET present == Present(S)
    IN  IF present = {} THEN None
        ELSE Some([num |-> Total(present), den |-> Cardinality(present)])

PeakOver(S) ==
    LET present == Present(S)
    IN  IF present = {} THEN None
        ELSE Some(Num(CHOOSE m \in {Val(passed_data[j].value) : j \in present} :
                         \A j \in present : Val(passed_data[j].value) <= m))

Games == IF aggregated = None THEN <<>> ELSE Val(aggregated)

PreRows(g)  == RowsWithin(g.app_id, g.release_date - pre_release_days, g.release_date)
PeakRows(g) == RowsWithin(g.app_id, g.release_date, g.release_date + post_launch_days_peak)
AvgRows(g)  == RowsWithin(g.app_id, g.release_date, g.release_date + post_launch_days_avg)

\* C9: the pre-release features use only the rows with
\* release - pre_release_days <= timestamp < release, the post-launch peaks only
\* those with release <= timestamp < release + post_launch_days_peak, the
\* post-launch averages only those with release <= timestamp < release +
\* post_launch_days_avg: a row at the release date is post-launch, a row at the
\* end of a window is outside it.
C9_WindowsHalfOpen ==
    \A i \in DOMAIN Games :
        LET g == Games[i]
            pre == MeanOver(PreRows(g))
            peak == PeakOver(PeakRows(g))
            avg == MeanOver(AvgRows(g))
        IN  /\ g.google_trends_avg_pre = pre
            /\ g.reddit_posts_avg_pre  = pre
            /\ g.twitter_count_avg_pre = pre
            /\ g.steam_peak_players    = peak
            /\ g.twitch_peak_viewers   = peak
            /\ g.steam_avg_players     = avg
            /\ g.twitch_avg_viewers    = avg

\* a game with a row exactly at its release date and a row exactly at the end of
\* the peak window, which differ in the metric: the peak is that of the first row
C9_Witness ==
    \E i \in DOMAIN Games :
        LET g == Games[i]
        IN  \E j, k \in DOMAIN passed_data :
                /\ passed_data[j].app_id = Some(g.app_id)
                /\ passed_data[k].app_id = Some(g.app_id)
                /\ passed_data[j].timestamp = Some(g.release_date)
                /\ passed_data[k].timestamp = Some(g.release_date + post_launch_days_peak)
                /\ passed_data[j].value = Some(0)
                /\ passed_data[k].value = Some(2)
                /\ g.steam_peak_players = Some(Num(0))
                /\ g.google_trends_avg_pre = None

\* C10: a windowed aggregate whose window holds no row, or only rows without the
\* metric, is None and never zero; a zero aggregate comes from a row in the
\* window whose metric is zero.
C10_EmptyWindowIsNone ==
    \A i \in DOMAIN Games :
        LET g == Games[i]
        IN  /\ Present(PreRows(g)) = {} =>
                  /\ g.google_trends_avg_pre = None
                  /\ g.reddit_posts_avg_pre = None
                  /\ g.twitter_count_avg_pre = None
            /\ Present(PeakRows(g)) = {} =>
                  /\ g.steam_peak_players = None
                  /\ g.twitch_peak_viewers = None
            /\ Present(AvgRows(g)) = {} =>
                  /\ g.steam_avg_players = None
                  /\ g.twitch_avg_viewers = None
            /\ \A f \in {g.google_trends_avg_pre, g.reddit_posts_avg_pre,
                         g.twitter_count_avg_pre} :
                  (f # None /\ Val(f).num = 0) =>
                      \E j \in PreRows(g) : passed_data[j].value = Some(0)
            /\ \A f \in {g.steam_peak_players, g.twitch_peak_viewers} :
                  (f # None /\ Val(f).num = 0) =>
                      \E j \in PeakRows(g) : passed_data[j].value = Some(0)
            /\ \A f \in {g.steam_avg_players, g.twitch_avg_viewers} :
                  (f # None /\ Val(f).num = 0) =>
                      \E j \in AvgRows(g) : passed_data[j].value = Some(0)

\* a game whose only row in the post-launch average window has no metric, and
\* whose other row lies before the release: its post-launch average is None
C10_Witness ==
    \E i \in DOMAIN Games :
        LET g == Games[i]
        IN  /\ AvgRows(g) # {}
            /\ Present(AvgRows(g)) = {}
            /\ Present(PreRows(g)) # {}
            /\ g.steam_avg_players = None
            /\ g.google_trends_avg_pre # None

\* positions in the passed frame of the usable rows of a game: those with an
\* app_id and a timestamp
UsableRows(app_id) ==
    {j \in DOMAIN passed_data :
        passed_data[j].app_id = Some(app_id) /\ HasTimestamp(passed_data[j])}

HasReleaseDate(app_id) ==
    \E j \in UsableRows(app_id) : passed_data[j].release_date # None

\* the passed frame without the rows of the other games
OnlyGame(app_id) == SelectSeq(passed_data, LAMBDA r : r.app_id = Some(app_id))

\* C11: the returned frame has exactly one row for every game that has a usable
\* row (app_id and timestamp present) carrying a release date, and no row for any
\* other game; the row of a game is the one the call returns for the frame
\* without the rows of the other games, so an excluded game changes nothing.
C11_OneRowPerDatedGame ==
    aggregated # None =>
        /\ \A a \in AppIds :
              Cardinality({i \in DOMAIN Games : Games[i].app_id = a})
                  = IF HasReleaseDate(a) THEN 1 ELSE 0
        /\ \A i \in DOMAIN Games : Games[i].app_id \in AppIds
        /\ \A i \in DOMAIN Games :
              AggregateFeatures(OnlyGame(Games[i].app_id), pre_release_days,
                                post_launch_days_peak, post_launch_days_avg)
                  = <<Games[i]>>

\* the first game of the frame has no release date on a usable row (its only
\* release date sits on a row without timestamp); the second game has one and is
\* the only row returned
C11_Witness ==
    /\ aggregated # None
    /\ Len(Games) = 1 /\ Games[1].app_id = 2
    /\ \E j \in DOMAIN passed_data :
          /\ passed_data[j].app_id = Some(1)
          /\ passed_data[j].timestamp = None
          /\ passed_data[j].release_date # None

\* C12: the second call of aggregate_features on the frame object the first call
\* was given returns the same frame as the first call.
C12_SecondCallSameOutput ==
    previous_output # None => aggregated = previous_output

\* a second call returned a game's row after the first call had dropped a row
\* from the frame
C12_Witness ==
    /\ previous_output # None
    /\ Len(merged_data) < Len(passed_data)
    /\ Games # <<>>

\* C13 as stated: after the call the frame that was passed has the rows it had
\* before the call.
C13_InputUnchanged ==
    aggregated # None => merged_data = passed_data

\* the cells of the passed frame, by position
NameAt(j) == passed_data[j].name
ReleaseDateAt(j) == passed_data[j].release_date
ValueAt(j) == passed_data[j].value

PresentIn(S, F(_)) == {j \in S : F(j) # None}

\* the value of the last row, in row order, that has one
LastInRowOrder(S, F(_)) ==
    IF PresentIn(S, F) = {} THEN None
    ELSE F(CHOOSE j \in PresentIn(S, F) : \A k \in PresentIn(S, F) : k <= j)

\* v is the value of a row with the greatest timestamp among those that have one
IsLatest(v, S, F(_)) ==
    IF PresentIn(S, F) = {} THEN v = None
    ELSE \E j \in PresentIn(S, F) :
            /\ \A k \in PresentIn(S, F) :
                  Val(passed_data[k].timestamp) <= Val(passed_data[j].timestamp)
            /\ v = F(j)

\* the usable rows of the game come in the order of their timestamps
InTimeOrder(app_id) ==
    \A j, k \in UsableRows(app_id) :
        j < k => Val(passed_data[j].timestamp) <= Val(passed_data[k].timestamp)

ResolvedName(g) == IF g.game_name = "Unknown Game" THEN None ELSE Some(g.game_name)

\* C20 as stated: for every row order, each resolved last non-absent value is that
\* of the row with the greatest timestamp among the rows carrying one.
C20_LastKnownIsLatest ==
    \A i \in DOMAIN Games :
        LET g == Games[i]
        IN  /\ IsLatest(ResolvedName(g), UsableRows(g.app_id), NameAt)
            /\ IsLatest(Some(g.release_date), UsableRows(g.app_id), ReleaseDateAt)
            /\ IsLatest(g.metacritic_score, UsableRows(g.app_id), ValueAt)
            /\ IsLatest(g.reddit_subs_pre, PreRows(g), ValueAt)
            /\ IsLatest(g.reddit_active_pre, PreRows(g), ValueAt)

\* C20: each resolved last non-absent value is that of the last row, in the
\* frame's row order, that carries one; it is the value of the row with the
\* greatest timestamp when the game's rows come in the order of their timestamps,
\* as in a frame load_merged_data returns.
C20_LastKnownIsLastRow ==
    \A i \in DOMAIN Games :
        LET g == Games[i]
        IN  /\ ResolvedName(g) = LastInRowOrder(UsableRows(g.app_id), NameAt)
            /\ Some(g.release_date) = LastInRowOrder(UsableRows(g.app_id), ReleaseDateAt)
            /\ g.metacritic_score = LastInRowOrder(UsableRows(g.app_id), ValueAt)
            /\ g.reddit_subs_pre = LastInRowOrder(PreRows(g), ValueAt)
            /\ g.reddit_active_pre = LastInRowOrder(PreRows(g), ValueAt)
            /\ InTimeOrder(g.app_id) =>
                  /\ IsLatest(ResolvedName(g), UsableRows(g.app_id), NameAt)
                  /\ IsLatest(Some(g.release_date), UsableRows(g.app_id), ReleaseDateAt)
                  /\ IsLatest(g.metacritic_score, UsableRows(g.app_id), ValueAt)
                  /\ IsLatest(g.reddit_subs_pre, PreRows(g), ValueAt)
                  /\ IsLatest(g.reddit_active_pre, PreRows(g), ValueAt)

\* a frame in time order whose two rows, both before the release, differ in name
\* and metric: the game's row carries the name and the metric of the later row
C20_Witness ==
    /\ Len(passed_data) = 2 /\ Len(Games) = 1
    /\ InTimeOrder(1)
    /\ passed_data[1].timestamp = Some(0) /\ passed_data[2].timestamp = Some(1)
    /\ passed_data[1].name = Some("g1_renamed") /\ passed_data[2].name = Some(NameOf(1))
    /\ passed_data[1].value = Some(2) /\ passed_data[2].value = Some(0)
    /\ Games[1].game_name = NameOf(1)
    /\ Games[1].reddit_subs_pre = Some(0)
    /\ Games[1].metacritic_score = Some(0)

\* f is the arithmetic mean of the values present at the positions S: the sum of
\* those values is f times their number; None when no value is present
IsMeanOfPresent(f, S) ==
    LET present == Present(S)
    IN  IF present = {} THEN f = None
        ELSE /\ f # None
             /\ Val(f).den > 0
             /\ Val(f).num * Cardinality(present) = Total(present) * Val(f).den

\* f is the greatest of the values present at the positions S
IsMaxOfPresent(f, S) ==
    LET present == Present(S)
    IN  IF present = {} THEN f = None
        ELSE /\ f # None
             /\ Val(f).den = 1
             /\ \E j \in present : Val(passed_data[j].value) = Val(f).num
             /\ \A j \in present : Val(passed_data[j].value) <= Val(f).num

\* C26: each pre-release average is the arithmetic mean of the values present in
\* the pre-release window, each post-launch peak the maximum of the values present
\* in the peak window, each post-launch average the mean of the values present in
\* the average window; a row without the value counts neither in the sum nor in
\* the number of values.
C26_MeansAndPeaksOfPresentValues ==
    \A i \in DOMAIN Games :
        LET g == Games[i]
            pre == PreRows(g)
            peak == PeakRows(g)
            avg == AvgRows(g)
        IN  /\ IsMeanOfPresent(g.google_trends_avg_pre, pre)
            /\ IsMeanOfPresent(g.reddit_posts_avg_pre, pre)
            /\ IsMeanOfPresent(g.twitter_count_avg_pre, pre)
            /\ IsMaxOfPresent(g.steam_peak_players, peak)
            /\ IsMaxOfPresent(g.twitch_peak_viewers, peak)
            /\ IsMeanOfPresent(g.steam_avg_players, avg)
            /\ IsMeanOfPresent(g.twitch_avg_viewers, avg)

\* a game with two rows in its pre-release window, one with the value 2 and one
\* without a value: the pre-release averages are 2, not 1
C26_Witness ==
    \E i \in DOMAIN Games :
        LET g == Games[i]
        IN  /\ Cardinality(PreRows(g)) = 2
            /\ Cardinality(Present(PreRows(g))) = 1
            /\ g.google_trends_avg_pre = Some(Num(2))

\* the usable rows of a game that lie in none of its windows
OutsideWindows(g) ==
    UsableRows(g.app_id) \ (PreRows(g) \cup PeakRows(g) \cup AvgRows(g))

\* C27: the metacritic_score of a game is absent only when no usable row of the
\* game carries one; a score on a usable row outside every window (before the
\* pre-release window, after the post-launch windows) makes it non-absent.
C27_CriticScoreNotWindowBound ==
    \A i \in DOMAIN Games :
        LET g == Games[i]
        IN  /\ g.metacritic_score # None <=> Present(UsableRows(g.app_id)) # {}
            /\ Present(OutsideWindows(g)) # {} => g.metacritic_score # None

\* a game whose only score sits on a row outside every window: the score is
\* emitted, the windowed features are absent
C27_Witness ==
    \E i \in DOMAIN Games :
        LET g == Games[i]
        IN  /\ Present(OutsideWindows(g)) # {}
            /\ Present(PreRows(g) \cup PeakRows(g) \cup AvgRows(g)) = {}
            /\ g.metacritic_score = Some(2)
            /\ g.google_trends_avg_pre = None /\ g.steam_avg_players = None

\* the rows of the passed frame that have an app_id and a date as timestamp
UsablePart ==
    SelectSeq(passed_data, LAMBDA r : r.app_id # None /\ HasTimestamp(r))

\* C28: rows without app_id, without timestamp or with a timestamp that is no
\* date contribute to nothing: the call returns what it returns for the frame
\* without these rows; a game is emitted only if a usable row carries a release
\* date, and its name, release date and critic score are those of usable rows.
C28_UnusableRowsContributeNothing ==
    aggregated # None =>
        /\ UsablePart # passed_data =>
              Val(aggregated) = AggregateFeatures(UsablePart, pre_release_days,
                                                  post_launch_days_peak,
                                                  post_launch_days_avg)
        /\ \A i \in DOMAIN Games :
              LET g == Games[i]
              IN  /\ HasReleaseDate(g.app_id)
                  /\ \E j \in UsableRows(g.app_id) :
                        passed_data[j].release_date = Some(g.release_date)
                  /\ ResolvedName(g) # None =>
                        \E j \in UsableRows(g.app_id) : NameAt(j) = ResolvedName(g)
                  /\ g.metacritic_score # None =>
                        \E j \in UsableRows(g.app_id) : ValueAt(j) = g.metacritic_score

\* a game with a usable row of score 0 and, after it, a row of score 2 whose
\* timestamp is no date: the emitted score is 0
C28_Witness ==
    /\ Len(passed_data) = 2 /\ Len(Games) = 1
    /\ passed_data[1].app_id = passed_data[2].app_id
    /\ HasTimestamp(passed_data[1]) /\ passed_data[1].value = Some(0)
    /\ passed_data[2].timestamp = Some(NotADate) /\ passed_data[2].value = Some(2)
    /\ Games[1].metacritic_score = Some(0)

-----------------------------------------------------------------------------
(* DataAggregator.load_merged_data and DataCollector.merge_historical_data     *)
(*                                                                             *)
(* A path is the sequence of its components, "/" first when it is absolute.    *)
(* A snapshot file is unreadable (read_csv raises: truncated archive, empty    *)
(* file, broken rows) or has rows; of a row only the timestamp cell matters,   *)
(* which is empty, the text of a day, or text that is no date.  Every file has *)
(* the timestamp column.  merge_historical_data is called without filters.     *)

MaxFiles == 2       \* files in data_dir
MaxFileRows == 2    \* rows in a file

FileName(i) ==
    CASE i = 1 -> "steam_data_1.csv"
      [] i = 2 -> "steam_data_2.csv"
      [] i = 3 -> "steam_data_3.csv"
      [] OTHER -> "steam_data_9.csv"

\* Path.is_absolute()
IsAbsolute(path) == path # <<>> /\ path[1] = "/"

\* dir / path
JoinPath(dir, path) == IF IsAbsolute(path) THEN path ELSE dir \o path

\* self.data_dir.glob("steam_data_*.csv*"): the files of the directory, each path
\* starting with data_dir
Glob(dir, files) == [i \in DOMAIN files |-> JoinPath(dir, <<FileName(i)>>)]

\* the file a path leads to, None when there is none; a relative path is
\* resolved from the working directory, as data_dir is
FileAt(dir, files, path) ==
    IF \E i \in DOMAIN files : path = JoinPath(dir, <<FileName(i)>>)
    THEN Some(CHOOSE i \in DOMAIN files : path = JoinPath(dir, <<FileName(i)>>))
    ELSE None

\* the frame read_csv builds from a file: the timestamp cells are text
TextRows(files, i) ==
    [k \in DOMAIN files[i].cells |->
        [file |-> FileName(i), line |-> k, timestamp |-> files[i].cells[k],
         parsed |-> FALSE]]

IsDateText(cell) == cell # None /\ Val(cell) # NotADate

\* pd.read_csv(f, parse_dates=['timestamp']): a column with a cell that is no date
\* is returned unaltered, as text
ReadCsvParseDates(files, i) ==
    IF ~files[i].readable THEN [raised |-> TRUE, rows |-> <<>>]
    ELSE [raised |-> FALSE,
          rows |-> IF \A k \in DOMAIN files[i].cells :
                         files[i].cells[k] = None \/ IsDateText(files[i].cells[k])
                   THEN [k \in DOMAIN files[i].cells |->
                            [TextRows(files, i)[k] EXCEPT !.parsed = TRUE]]
                   ELSE TextRows(files, i)]

\* DataCollector.load_data(filepath)
LoadData(dir, files, filepath) ==
    LET path  == IF ~IsAbsolute(filepath) THEN JoinPath(dir, filepath) ELSE filepath
        found == FileAt(dir, files, path)
    IN  IF found = None THEN [raised |-> TRUE, rows |-> <<>>]      \* FileNotFoundError
        ELSE IF ~files[Val(found)].readable THEN [raised |-> TRUE, rows |-> <<>>]
        ELSE [raised |-> FALSE, rows |-> TextRows(files, Val(found))]

\* pd.concat(dfs, ignore_index=True) over the frames that were loaded
RECURSIVE Concat(_)
Concat(loads) ==
    IF loads = <<>> THEN <<>>
    ELSE (IF Head(loads).raised THEN <<>> ELSE Head(loads).rows) \o Concat(Tail(loads))

\* sort_values('timestamp') compares the cells that are not null: it raises
\* TypeError on a column that holds datetimes and text
Unsortable(frame) ==
    \E j, k \in DOMAIN frame :
        /\ frame[j].timestamp # None /\ frame[k].timestamp # None
        /\ frame[j].parsed /\ ~frame[k].parsed

\* the place of a row in the sorted frame: days in order (as datetimes or as
\* texts), text that is no date after them, null cells last
MergeSortKey(r) == IF r.timestamp = None THEN NotADate + 1 ELSE Val(r.timestamp)

IndexOrders(n) ==
    {q \in [1 .. n -> 1 .. n] : \A a, b \in 1 .. n : a # b => q[a] # q[b]}

\* the frames sort_values('timestamp') may return: the sort is not stable
SortValues(frame) ==
    {[j \in DOMAIN frame |-> frame[q[j]]] :
        q \in {q \in IndexOrders(Len(frame)) :
                  \A j \in 1 .. (Len(frame) - 1) :
                      MergeSortKey(frame[q[j]]) <= MergeSortKey(frame[q[j + 1]])}}

\* pd.to_datetime(merged_df['timestamp']): raises on a cell that is no date
ToDatetimeRaises(frame) ==
    \E j \in DOMAIN frame :
        frame[j].timestamp # None /\ ~IsDateText(frame[j].timestamp)

Returned(fn, frame) == [fn |-> fn, raised |-> FALSE, frame |-> frame]
Raised(fn) == [fn |-> fn, raised |-> TRUE, frame |-> <<>>]

\* DataAggregator.load_merged_data(): the files in name order
LoadMergedData ==
    /\ merge_result.fn = "none"
    /\ LET fn     == "load_merged_data"
           loads  == [i \in DOMAIN data_files |-> ReadCsvParseDates(data_files, i)]
           merged == Concat(loads)
       IN  IF data_files = <<>> \/ \A i \in DOMAIN loads : loads[i].raised
           THEN merge_result' = Returned(fn, <<>>)
           ELSE IF Unsortable(merged)
           THEN merge_result' = Raised(fn)
           ELSE \E sorted \in SortValues(merged) : merge_result' = Returned(fn, sorted)
    /\ UNCHANGED <<connVars, runVars, aggVars, data_dir, data_files>>
    /\ UNCHANGED methodVars

\* DataCollector.merge_historical_data(): the files in the order glob yields them
MergeHistoricalData ==
    /\ merge_result.fn = "none"
    /\ \E order \in IndexOrders(Len(data_files)) :
          LET fn     == "merge_historical_data"
              paths  == Glob(data_dir, data_files)
              loads  == [i \in DOMAIN data_files |->
                            LoadData(data_dir, data_files, paths[order[i]])]
              merged == Concat(loads)
              dated  == [j \in DOMAIN merged |-> [merged[j] EXCEPT !.parsed = TRUE]]
          IN  IF data_files = <<>> \/ \A i \in DOMAIN loads : loads[i].raised
              THEN merge_result' = Returned(fn, <<>>)
              ELSE IF ToDatetimeRaises(merged)
              THEN merge_result' = Raised(fn)
              ELSE \E sorted \in SortValues(dated) : merge_result' = Returned(fn, sorted)
    /\ UNCHANGED <<connVars, runVars, aggVars, data_dir, data_files>>
    /\ UNCHANGED methodVars

TimestampCells == {None, Some(0), Some(1), Some(NotADate)}

SnapshotFiles ==
    {[readable |-> FALSE, cells |-> <<>>]}
        \cup {[readable |-> TRUE, cells |-> c] : c \in SeqsOver(TimestampCells, MaxFileRows)}

\* data_dir as the caller gives it: the default "data", or an absolute path
DataDirs == {<<"data">>, <<"/", "srv", "data">>}

MergeInit ==
    /\ now = StartTime
    /\ conn = "none"
    /\ clients = AllClients
    /\ steam = SteamInit
    /\ twitch = TwitchInit
    /\ twitter = TwitterInit
    /\ call = NoCall
    /\ auth_failed = FALSE
    /\ ncalls = 0
    /\ RunIdle
    /\ AggIdle
    /\ data_dir \in DataDirs
    /\ data_files \in SeqsOver(SnapshotFiles, MaxFiles)
    /\ merge_result = NoMerge
    /\ MethodIdle

MergeNext ==
    \/ LoadMergedData
    \/ MergeHistoricalData

SpecMerge == MergeInit /\ [][MergeNext]_vars

-----------------------------------------------------------------------------
(* Claims about the merge of the snapshot files *)

\* the rows of the files read_csv can read, as (file, line) pairs
RowsOfLoadableFiles ==
    {[file |-> FileName(i), line |-> k] :
        i \in {i \in DOMAIN data_files : data_files[i].readable},
        k \in 1 .. MaxFileRows} \cap
    UNION {{[file |-> FileName(i), line |-> k] : k \in DOMAIN data_files[i].cells} :
              i \in DOMAIN data_files}

MergedRows == {[file |-> merge_result.frame[j].file, line |-> merge_result.frame[j].line] :
                  j \in DOMAIN merge_result.frame}

\* C29 as stated: load_merged_data and merge_historical_data return the rows of
\* every loadable file, each once, in the order of their timestamps; an unreadable
\* file is left out and costs neither the merge nor the rows of the other files;
\* the result is empty when no file can be loaded.
C29_MergeKeepsLoadableRows ==
    merge_result.fn # "none" =>
        /\ ~merge_result.raised
        /\ MergedRows = RowsOfLoadableFiles
        /\ Len(merge_result.frame) = Cardinality(RowsOfLoadableFiles)
        /\ \A j, k \in DOMAIN merge_result.frame :
              (/\ j < k
               /\ IsDateText(merge_result.frame[j].timestamp)
               /\ IsDateText(merge_result.frame[k].timestamp))
                  => Val(merge_result.frame[j].timestamp)
                        <= Val(merge_result.frame[k].timestamp)

-----------------------------------------------------------------------------
(* Method-level runs: the methods of one connector object called one after     *)
(* the other, with arbitrary arguments and platform answers                    *)

MaxMethodCalls == 3

\* SteamAPIConnector.clear_cache
SteamClearCache(st) == [st EXCEPT !.app_cache = EmptyDict]

\* TwitchAPIConnector.clear_cache
TwitchClearCache(tw) == [tw EXCEPT !.game_id_cache = EmptyDict]

\* the platform answers the first request, the second one, or none
MethodScripts == {<<>>, <<"transient">>, Rep("transient", max_retries)}

MethodCall(method, arg, script, pscript, payload, returned, gets, posts) ==
    [method |-> method, arg |-> arg, script |-> script, pscript |-> pscript,
     payload |-> payload, returned |-> returned, gets |-> gets, posts |-> posts]

AppDetailsCall ==
    /\ conn = "steam" /\ Len(method_calls) < MaxMethodCalls
    /\ \E app_id \in AppIds, script \in MethodScripts,
          payload \in {"data", "nodata", "missing"} :
          LET d == GetAppDetails(steam, now, app_id, script, payload)
          IN  /\ steam' = d.st
              /\ now' = d.t
              /\ method_calls' = Append(method_calls,
                                        MethodCall("get_app_details", app_id, script,
                                                   <<>>, payload, d.details, d.gets, 0))
    /\ UNCHANGED <<conn, clients, twitch, twitter, call, auth_failed, ncalls>>
    /\ UNCHANGED <<runVars, aggVars, mergeVars>>

SteamClearCacheCall ==
    /\ conn = "steam" /\ Len(method_calls) < MaxMethodCalls
    /\ steam' = SteamClearCache(steam)
    /\ method_calls' = Append(method_calls,
                              MethodCall("clear_cache", None, <<>>, <<>>, "", None,
                                         <<>>, 0))
    /\ UNCHANGED <<now, conn, clients, twitch, twitter, call, auth_failed, ncalls>>
    /\ UNCHANGED <<runVars, aggVars, mergeVars>>

\* answer: the game is found, is not known to Twitch, the request fails, or the
\* token endpoint refuses the token
GameIdCall ==
    /\ conn = "twitch" /\ Len(method_calls) < MaxMethodCalls
    /\ \E a \in AppIds, answer \in {"found", "notfound", "failed", "notoken"} :
          LET gscript == IF answer = "failed" THEN Rep("transient", max_retries) ELSE <<>>
              pscript == IF answer = "notoken" THEN <<"fail">> ELSE <<>>
              g == GetGameIdByName(twitch, now, clients["twitch"], NameOf(a),
                                   gscript, pscript, answer # "notfound")
          IN  /\ twitch' = g.st
              /\ now' = g.t
              /\ method_calls' = Append(method_calls,
                                        MethodCall("get_game_id_by_name", NameOf(a),
                                                   gscript, pscript, answer, g.game_id,
                                                   g.gets, g.posts))
    /\ UNCHANGED <<conn, clients, steam, twitter, call, auth_failed, ncalls>>
    /\ UNCHANGED <<runVars, aggVars, mergeVars>>

TwitchClearCacheCall ==
    /\ conn = "twitch" /\ Len(method_calls) < MaxMethodCalls
    /\ twitch' = TwitchClearCache(twitch)
    /\ method_calls' = Append(method_calls,
                              MethodCall("clear_cache", None, <<>>, <<>>, "", None,
                                         <<>>, 0))
    /\ UNCHANGED <<now, conn, clients, steam, twitter, call, auth_failed, ncalls>>
    /\ UNCHANGED <<runVars, aggVars, mergeVars>>

MaxRetries == 2     \* largest retries argument

\* one call of get_google_trends_interest, which keeps nothing from call to call:
\* the platform answers k times with 429 and then with last
TrendsInterestCall ==
    /\ conn = "gtrends" /\ method_calls = <<>>
    /\ \E retries \in 0 .. MaxRetries, delay_s \in {1, gt_delay_s},
          k \in 0 .. (MaxRetries + 1),
          last \in {"ok", "empty", "nokey", "transient", "notfound"} :
          LET script == Rep("throttled", k) \o <<last>>
              delay  == delay_s * TicksPerSecond
              r == GetGoogleTrendsInterest(now, clients["gtrends"], script, retries,
                                           delay)
          IN  /\ now' = r.t
              /\ method_calls' =
                    <<MethodCall("get_google_trends_interest",
                                 [retries |-> retries, delay |-> delay], script, <<>>,
                                 "",
                                 [result |-> r.result, backoffs |-> r.backoffs,
                                  fallback |-> r.fallback],
                                 r.gets, 0)>>
    /\ UNCHANGED <<conn, clients, steam, twitch, twitter, call, auth_failed, ncalls>>
    /\ UNCHANGED <<runVars, aggVars, mergeVars>>

MethodInit ==
    /\ now = StartTime
    /\ conn \in {"steam", "twitch", "gtrends"}
    /\ clients \in {AllClients, [AllClients EXCEPT ![conn] = FALSE]}
    /\ steam = SteamInit
    /\ twitch = TwitchInit
    /\ twitter = TwitterInit
    /\ call = NoCall
    /\ auth_failed = FALSE
    /\ ncalls = 0
    /\ RunIdle
    /\ AggIdle
    /\ MergeIdle
    /\ MethodIdle

MethodNext ==
    \/ AppDetailsCall
    \/ SteamClearCacheCall
    \/ GameIdCall
    \/ TwitchClearCacheCall
    \/ TrendsInterestCall

SpecMethods == MethodInit /\ [][MethodNext]_vars

-----------------------------------------------------------------------------
(* Claims about the caches of the connectors *)

\* the last clear_cache among the first n calls, 0 when there is none
LastClear(n) ==
    LET clears == {i \in 1 .. n : method_calls[i].method = "clear_cache"}
    IN  IF clears = {} THEN 0 ELSE CHOOSE i \in clears : \A j \in clears : j <= i

\* the call sent a request and the platform's answer held an entry for the app
ResponseContained(c) ==
    /\ c.gets # <<>>
    /\ Len(c.script) < max_retries
    /\ c.payload # "missing"

\* the calls among the first n, after the last clear_cache among them, whose
\* request for app_id was answered with an entry for it
Fetches(app_id, n) ==
    {i \in (LastClear(n) + 1) .. n :
        /\ method_calls[i].method = "get_app_details"
        /\ method_calls[i].arg = app_id
        /\ ResponseContained(method_calls[i])}

\* C31: app_cache holds an entry for an app id exactly when a request for that id
\* since the last clear_cache was answered with a response containing the id; a
\* call for a cached id sends no request and returns what the caching call
\* returned; a call for an id that is not cached sends a request, so a failed
\* lookup is looked up again.
C31_AppCacheHoldsAnsweredLookups ==
    conn = "steam" =>
        /\ \A a \in AppIds :
              a \in DOMAIN steam.app_cache <=> Fetches(a, Len(method_calls)) # {}
        /\ \A i \in DOMAIN method_calls :
              LET c == method_calls[i]
              IN  c.method = "get_app_details" =>
                      IF Fetches(c.arg, i - 1) # {}
                      THEN /\ c.gets = <<>>
                           /\ \A j \in Fetches(c.arg, i - 1) :
                                 c.returned = method_calls[j].returned
                      ELSE c.gets # <<>>

\* a lookup that failed, the same lookup answered with the app's data, and a
\* third lookup served from the cache
C31_Witness ==
    /\ conn = "steam" /\ Len(method_calls) = 3
    /\ \A i \in 1 .. 3 : /\ method_calls[i].method = "get_app_details"
                          /\ method_calls[i].arg = 1
    /\ method_calls[1].returned = None /\ method_calls[1].gets # <<>>
    /\ method_calls[2].gets # <<>> /\ method_calls[2].payload = "data"
    /\ method_calls[3].gets = <<>>
    /\ method_calls[3].returned = method_calls[2].returned
    /\ method_calls[3].returned # None

\* the lookups of game_name among the first n calls, after the last clear_cache
\* among them
Lookups(game_name, n) ==
    {i \in (LastClear(n) + 1) .. n :
        /\ method_calls[i].method = "get_game_id_by_name"
        /\ method_calls[i].arg = game_name}

\* C32: game_id_cache holds every name looked up since the last clear_cache,
\* whatever the lookup returned; a later lookup of the name sends no request, to
\* the API or for a token, and returns what the first lookup returned, None
\* included.
C32_GameIdCacheHoldsEveryResult ==
    conn = "twitch" =>
        /\ \A a \in AppIds :
              NameOf(a) \in DOMAIN twitch.game_id_cache
                  <=> Lookups(NameOf(a), Len(method_calls)) # {}
        /\ \A i \in DOMAIN method_calls :
              LET c == method_calls[i]
              IN  c.method = "get_game_id_by_name" =>
                      \A j \in Lookups(c.arg, i - 1) :
                          /\ c.gets = <<>>
                          /\ c.posts = 0
                          /\ c.returned = method_calls[j].returned

\* a lookup whose requests all failed returned None; the next lookup of the name,
\* which Twitch would have answered, returned None without a request
C32_Witness ==
    /\ conn = "twitch" /\ clients["twitch"] /\ Len(method_calls) = 2
    /\ \A i \in 1 .. 2 : /\ method_calls[i].method = "get_game_id_by_name"
                          /\ method_calls[i].arg = "g1"
    /\ method_calls[1].payload = "failed" /\ Len(method_calls[1].gets) = max_retries
    /\ method_calls[1].returned = None
    /\ method_calls[2].payload = "found"
    /\ method_calls[2].gets = <<>> /\ method_calls[2].posts = 0
    /\ method_calls[2].returned = None

-----------------------------------------------------------------------------
(* Claims about get_google_trends_interest *)

RECURSIVE Pow2(_)
Pow2(n) == IF n = 0 THEN 1 ELSE 2 * Pow2(n - 1)

\* C33: a call of get_google_trends_interest with retries >= 0 sends at most
\* retries + 1 requests; every request but the last was answered 429; the sleep
\* before the i-th retry is delay * 2^(i-1); an answer 429 is retried as long as
\* fewer than retries retries were made, and the call returns None when the last
\* allowed request is answered 429 or when any request fails otherwise; the
\* return after the loop is never reached.
C33_TrendsRetriesBounded ==
    (conn = "gtrends" /\ clients["gtrends"] /\ method_calls # <<>>) =>
        LET c       == method_calls[1]
            retries == c.arg.retries
            n       == Len(c.gets)
            final   == Resp(c.script, n)
        IN  /\ 1 <= n /\ n <= retries + 1
            /\ \A i \in 1 .. (n - 1) : Resp(c.script, i) = "throttled"
            /\ Len(c.returned.backoffs) = n - 1
            /\ \A i \in 1 .. (n - 1) :
                  /\ c.returned.backoffs[i] = c.arg.delay * Pow2(i - 1)
                  /\ c.gets[i + 1] - c.gets[i] = c.arg.delay * Pow2(i - 1)
            /\ final = "throttled" => n = retries + 1
            /\ c.returned.result = None <=> final \notin {"ok", "empty", "nokey"}
            /\ ~c.returned.fallback

\* retries = 2 and three answers 429: three requests, sleeps of delay and
\* 2 * delay, None returned
C33_Witness ==
    /\ conn = "gtrends" /\ clients["gtrends"] /\ method_calls # <<>>
    /\ method_calls[1].arg.retries = 2
    /\ Len(method_calls[1].gets) = 3
    /\ Resp(method_calls[1].script, 3) = "throttled"
    /\ method_calls[1].returned.backoffs
          = <<method_calls[1].arg.delay, 2 * method_calls[1].arg.delay>>
    /\ method_calls[1].returned.result = None

-----------------------------------------------------------------------------
(* Claims about the Twitch viewer count of a row (checked under Spec) *)

LastRow(rows) == rows[Len(rows)]

\* the streams request of the last get_game_viewership call got no answer
StreamsRequestFailed(c) == c.gets = <<>> \/ Len(c.script) >= max_retries

\* C34: get_game_viewership returns None exactly when the streams request failed
\* or its answer had no 'data' entry, and otherwise the sum of the viewer counts
\* of the streams, 0 when none is live; the row of a game for which no Twitch
\* game id was found keeps twitch_viewer_count = None.
C34_ViewersAbsentOnlyOnFailure ==
    [][/\ (pc = "viewers") =>
             LET c == call'
                 viewers == LastRow(data_rows')["twitch_viewer_count"]
             IN  /\ viewers = c.result
                 /\ viewers = None <=> (StreamsRequestFailed(c) \/ c.data = None)
                 /\ viewers # None => Val(viewers) = SumSeq(Val(c.data))
                 /\ (~StreamsRequestFailed(c) /\ c.data = Some(<<>>))
                        => viewers = Some(0)
       /\ (pc = "twitch") =>
             /\ pc' = "viewers" <=> twitch_game_id' # None
             /\ pc' # "viewers" =>
                    LastRow(data_rows')["twitch_viewer_count"] = None
      ]_vars

\* two rows: Twitch knows no id for the first game, whose viewer count stays
\* None; no stream of the second game is live, and its viewer count is 0
C34_Witness ==
    /\ Len(data_rows) = 2
    /\ data_rows[1]["name"] \in DOMAIN twitch.game_id_cache
    /\ twitch.game_id_cache[data_rows[1]["name"]] = None
    /\ data_rows[1]["twitch_viewer_count"] = None
    /\ call.conn = "twitch" /\ call.data = Some(<<>>) /\ call.gets # <<>>
    /\ data_rows[2]["twitch_viewer_count"] = Some(0)

-----------------------------------------------------------------------------
(* Claims about the YouTube fields of a row (checked under Spec) *)

YouTubeFields == {"youtube_total_views", "youtube_avg_views", "youtube_avg_likes"}

\* the number get_youtube_data returned for a field of the row
YouTubeNumber(youtube_data, field) ==
    LET stem == CASE field = "youtube_total_views" -> "total_views_top"
                  [] field = "youtube_avg_views"   -> "avg_views_top"
                  [] OTHER                         -> "avg_likes_top"
    IN  youtube_data[CHOOSE k \in DOMAIN youtube_data :
                        \E rest \in {"", "_N", "_2"} : k = stem \o rest]

\* C35 as stated: in the returned rows, the three YouTube fields of a game whose
\* get_youtube_data call completed its query without error, the case of no video
\* found included, hold the returned numbers and are not null; they are null
\* when the call failed or was skipped.
C35_YouTubeNumbersReachTheRow ==
    pc = "done" =>
        \A j \in DOMAIN data_rows :
            LET name == data_rows[j]["name"]
            IN  (name # "" /\ name \in DOMAIN external_data) =>
                    LET youtube_data == external_data[name]["youtube_data"]
                        completed == /\ youtube_data # None
                                     /\ \A k \in DOMAIN Val(youtube_data) :
                                           Val(youtube_data)[k] # None
                    IN  \A f \in YouTubeFields :
                            IF completed
                            THEN /\ data_rows[j][f] # None
                                 /\ data_rows[j][f] = YouTubeNumber(Val(youtube_data), f)
                            ELSE data_rows[j][f] = None

-----------------------------------------------------------------------------
(* get_api_statistics of the Steam and Twitch connectors (checked under        *)
(* SpecConn)                                                                   *)

\* error_count / request_count * 100, kept as a fraction; 0 before any request
ErrorRate(error_count, request_count) ==
    IF request_count > 0 THEN [num |-> error_count * 100, den |-> request_count]
    ELSE [num |-> 0, den |-> 1]

SteamApiStatistics(st) ==
    [total_requests |-> st.request_count,
     total_errors |-> st.error_count,
     error_rate_percent |-> ErrorRate(st.error_count, st.request_count),
     cache_size |-> Cardinality(DOMAIN st.app_cache)]

TwitchApiStatistics(tw, t) ==
    [total_requests |-> tw.request_count,
     total_errors |-> tw.error_count,
     error_rate_percent |-> ErrorRate(tw.error_count, tw.request_count),
     cache_size |-> Cardinality(DOMAIN tw.game_id_cache),
     token_valid |-> tw.access_token /\ t < tw.token_expiry_time]

WithinPercent(rate) == 0 <= rate.num /\ rate.num <= 100 * rate.den

\* C36 as stated: for the Steam and the Twitch connector, after any sequence of
\* requests with any pattern of failures, error_count <= request_count, and the
\* error_rate_percent of get_api_statistics lies between 0 and 100.
C36_ErrorRateWithinBounds ==
    /\ steam.error_count <= steam.request_count
    /\ twitch.error_count <= twitch.request_count
    /\ WithinPercent(SteamApiStatistics(steam).error_rate_percent)
    /\ WithinPercent(TwitchApiStatistics(twitch, now).error_rate_percent)

-----------------------------------------------------------------------------
(* Claims about the windows of aggregate_features (checked under SpecAgg) *)

\* the rows aggregate_features groups, and the release date it resolves for a game
PreparedRows == Dropna(ConvertTypes(passed_data))
ResolvedRelease(group) == LastKnown([j \in DOMAIN group |-> group[j].release_date])

Rows(frame) == {frame[j] : j \in DOMAIN frame}

\* C37: for every game with a release date, no row is both in the pre-release
\* window and in a post-launch window, and when post_launch_days_peak <=
\* post_launch_days_avg every row of the peak window is in the average window.
C37_WindowsDisjointAndNested ==
    aggregated # None =>
        LET prepared == PreparedRows
        IN  \A a \in AppIds :
            LET group   == Group(prepared, a)
                release == ResolvedRelease(group)
            IN  release # None =>
                    LET pre  == Rows(PreReleaseData(group, Val(release), pre_release_days))
                        peak == Rows(PostLaunchDataPeak(group, Val(release),
                                                        post_launch_days_peak))
                        avg  == Rows(PostLaunchDataAvg(group, Val(release),
                                                       post_launch_days_avg))
                    IN  /\ pre \cap peak = {}
                        /\ pre \cap avg = {}
                        /\ post_launch_days_peak <= post_launch_days_avg
                              => peak \subseteq avg

\* a game with a row on the day before its release and a row on the release day,
\* the peak window shorter than the average window: the first row is in the
\* pre-release window only, the second in both post-launch windows
C37_Witness ==
    /\ aggregated # None /\ Len(passed_data) = 2
    /\ post_launch_days_peak < post_launch_days_avg
    /\ passed_data[1].app_id = Some(1) /\ passed_data[2].app_id = Some(1)
    /\ passed_data[1].timestamp = Some(ReleaseDay - 1)
    /\ passed_data[2].timestamp = Some(ReleaseDay)
    /\ passed_data[2].release_date = Some(ReleaseDay)
    /\ LET group == Group(PreparedRows, 1)
       IN  /\ Rows(PreReleaseData(group, ReleaseDay, pre_release_days))
                 = {passed_data[1]}
           /\ Rows(PostLaunchDataPeak(group, ReleaseDay, post_launch_days_peak))
                 = {passed_data[2]}
           /\ Rows(PostLaunchDataAvg(group, ReleaseDay, post_launch_days_avg))
                 = {passed_data[2]}

====
